---- MODULE Spec2Model ----
(***************************************************************************)
(* imagingDB: ingestion of imaging datasets into an object store and a     *)
(* relational catalog.  The model follows                                  *)
(*   imaging_db/cli/data_uploader.py      (upload_data_and_update_db)      *)
(*   imaging_db/filestorage/s3_storage.py (DataStorage)                    *)
(*   imaging_db/images/file_splitter.py   (FileSplitter)                   *)
(*   imaging_db/images/slide_explorer_splitter.py, lif_splitter.py         *)
(* The catalog operations (imaging_db.database.db_operations) and          *)
(* cli_utils.validate_id are not part of the sources at hand; they are     *)
(* modelled from the specification and from the way their callers use      *)
(* them.                                                                   *)
(***************************************************************************)
EXTENDS Integers, Sequences, FiniteSets, TLC

VARIABLES
    storage,      \* the bucket: function from <<folder, file name>> to body
    catalog,      \* committed rows of data_set, frames_global, frames, file_global
    pc,           \* position of upload_data_and_update_db
    run,          \* arguments of the running invocation (config + overwrite)
    row,          \* the row of the batch descriptor being processed
    file_nbr,     \* index of that row
    frames_inst,  \* products of the splitter of the current row
    row_state,    \* per row: Pending, Validating, Uploading, Cataloged, Failed
    reason,       \* per row: the error kind of a Failed row
    raised,       \* the exception that left the last invocation, or "none"
    nrows_read,   \* rows read from all batch descriptors so far
    hist,         \* observations of the current row (what was acknowledged, etc.)
    dl            \* the running download_data invocation: arguments, destination

vars == <<storage, catalog, pc, run, row, file_nbr, frames_inst, row_state,
          reason, raised, nrows_read, hist, dl>>

---------------------------------------------------------------------------
(* Bounds of the model *)
MaxIngest == 2   \* rows of all batch descriptors together
MaxPages == 2    \* pages (lif: series) of one source file

(* Program constants *)
FILE_FOLDER_NAME == "raw_files"
FRAME_FOLDER_NAME == "raw_frames"
FRAME_FILE_FORMAT == ".png"
int2str_len == 3

None == "None"

---------------------------------------------------------------------------
(* Inputs *)

\* dataset ids found in the batch descriptor: two well-formed, one not
ValidSerials == {"TEST-2005-06-09-20-00-00-1000", "TEST-2005-06-09-20-00-00-1001"}
InvalidSerials == {"BAD_ID"}
Serials == ValidSerials \cup InvalidSerials

\* A source is what row.file_name points at: a file of npages pages whose
\* pixel contents are named by ver, or a path at which there is nothing.
Versions == {"a", "b"}
Missing == [npages |-> 0, ver |-> "none"]
Sources == [npages : 1..MaxPages, ver : Versions] \cup {Missing}

\* A source can also be a position set: a directory of ome-tiff files, one
\* per position of a slide.  files lists the files in the order glob
\* returns them, position_list is the InitialPositionList of the first
\* file, positions the positions column of the row (all: the literal
\* 'all', list: the listed tile numbers; neither: the column is empty).
isdir(src) == "files" \in DOMAIN src

\* os.path.isfile(row.file_name)
isfile(src) == src # Missing /\ ~isdir(src)

\* the PositionIndex the MicroManagerMetadata of the pages of a file gives
PositionIndex(file) ==
    IF "PositionIndex" \in DOMAIN file THEN file.PositionIndex ELSE 0

\* the position labels of a slide (InitialPositionList of the IJMetadata)
TileLabels == <<"roi1_tile1", "roi1_tile10", "roi2_tile1">>

\* the ome-tiff file of the i-th position of the slide, of n pages
TileFile(i, n) ==
    [name |-> "img_" \o TileLabels[i] \o ".ome.tif", npages |-> n,
     ver |-> TileLabels[i], PositionIndex |-> i - 1]

\* the positions column of a row: empty, 'all', or a list of tile numbers
PositionsArgs ==
    {[all |-> FALSE, list |-> {}], [all |-> TRUE, list |-> {}]}
    \cup {[all |-> FALSE, list |-> l] : l \in {{1}, {10}, {1, 10}}}

\* what glob can return for a directory holding some of the position files
Globs(n) ==
    {g \in UNION {[1..m -> {TileFile(i, n) : i \in DOMAIN TileLabels}] :
                  m \in 0..Len(TileLabels)} :
        \A a, b \in DOMAIN g : a # b => g[a] # g[b]}

\* the position sets a row can name
PositionSets ==
    {[files |-> g, position_list |-> TileLabels, positions |-> p] :
        g \in UNION {Globs(n) : n \in 1..MaxPages}, p \in PositionsArgs}

\* single ome-tiff files that name their own position
PositionFiles ==
    {[name |-> "img_Pos40.ome.tif", npages |-> n, ver |-> "a",
      PositionIndex |-> 40] : n \in 1..MaxPages}

FramesFormats == {"slide_explorer", "lif"}

\* the config json: upload_type, and frames_format when it is frames
Configs ==
    {[upload_type |-> "frames", frames_format |-> f] : f \in FramesFormats}
    \cup {[upload_type |-> "file", frames_format |-> None]}

\* pixels of page k of a source file
Pixels(src, k) == <<src.ver, k>>

\* meta_utils.gen_sha256: a digest, injective on the modelled contents
gen_sha256(data) == "sha256:" \o ToString(data)

\* im_utils.serialize_im / deserialize_im: png encoding of one frame
serialize_im(im, file_format) == <<file_format, im>>
deserialize_im(body) == body[2]

---------------------------------------------------------------------------
(* imaging_db/images/file_splitter.py *)

RECURSIVE zfill(_, _)
\* str.zfill: pad a decimal string with zeros on the left up to width
zfill(s, width) == IF Len(s) >= width THEN s ELSE zfill("0" \o s, width)

\* _get_imname writing the indices without padding
_get_imname_NoPadding(meta_row) ==
    "im_c" \o ToString(meta_row.channel_idx) \o
    "_z" \o ToString(meta_row.slice_idx) \o
    "_t" \o ToString(meta_row.time_idx) \o
    "_p" \o ToString(meta_row.pos_idx) \o
    FRAME_FILE_FORMAT

\* FileSplitter._get_imname
_get_imname(meta_row) ==
    "im_c" \o zfill(ToString(meta_row.channel_idx), int2str_len) \o
    "_z" \o zfill(ToString(meta_row.slice_idx), int2str_len) \o
    "_t" \o zfill(ToString(meta_row.time_idx), int2str_len) \o
    "_p" \o zfill(ToString(meta_row.pos_idx), int2str_len) \o
    FRAME_FILE_FORMAT

\* np.unique over one column of frames_meta
Unique(frames_meta, col) == {frames_meta[i][col] : i \in DOMAIN frames_meta}

\* set_global_meta taking the positions for one whatever the rows say
set_global_meta_OnePosition(s3_dir, frames_meta, nbr_frames) ==
    [s3_dir |-> s3_dir,
     nbr_frames |-> nbr_frames,
     nbr_slices |-> Cardinality(Unique(frames_meta, "slice_idx")),
     nbr_channels |-> Cardinality(Unique(frames_meta, "channel_idx")),
     nbr_timepoints |-> Cardinality(Unique(frames_meta, "time_idx")),
     nbr_positions |-> 1]

\* set_global_meta counting the distinct file names for nbr_frames
set_global_meta_UniqueNames(s3_dir, frames_meta, nbr_frames) ==
    [s3_dir |-> s3_dir,
     nbr_frames |-> Cardinality(Unique(frames_meta, "file_name")),
     nbr_slices |-> Cardinality(Unique(frames_meta, "slice_idx")),
     nbr_channels |-> Cardinality(Unique(frames_meta, "channel_idx")),
     nbr_timepoints |-> Cardinality(Unique(frames_meta, "time_idx")),
     nbr_positions |-> Cardinality(Unique(frames_meta, "pos_idx"))]

\* FileSplitter.set_global_meta
set_global_meta(s3_dir, frames_meta, nbr_frames) ==
    [s3_dir |-> s3_dir,
     nbr_frames |-> nbr_frames,
     nbr_slices |-> Cardinality(Unique(frames_meta, "slice_idx")),
     nbr_channels |-> Cardinality(Unique(frames_meta, "channel_idx")),
     nbr_timepoints |-> Cardinality(Unique(frames_meta, "time_idx")),
     nbr_positions |-> Cardinality(Unique(frames_meta, "pos_idx"))]

---------------------------------------------------------------------------
(* imaging_db/filestorage/s3_storage.py *)

\* list_objects_v2(Prefix=folder_name)['KeyCount']: the keys of a folder.
\* Keys are pairs <<folder, file name>>; a folder name ends with a
\* well-formed serial, so no folder name is a prefix of another one.
KeyCount(st, folder_name) ==
    Cardinality({k \in DOMAIN st : k[1] = folder_name})

\* DataStorage.assert_unique_id: TRUE iff the assertion passes
assert_unique_id(st, folder_name) == KeyCount(st, folder_name) = 0

\* put_object / upload_file of boto3: the key holds the body afterwards
put_object(st, key, body) ==
    [k \in DOMAIN st \cup {key} |-> IF k = key THEN body ELSE st[k]]

RECURSIVE upload_frames_loop(_, _, _, _, _, _)
\* the for loop of DataStorage.upload_frames from frame i on; ok is the set
\* of indices whose put_object, if attempted, is acknowledged by the store.
\* A key that exists and a put that raises both end in the except clause.
upload_frames_loop(st, folder_name, file_names, im_stack, ok, i) ==
    IF i > Len(file_names) THEN st
    ELSE LET key == <<folder_name, file_names[i]>>
             st1 == IF key \in DOMAIN st THEN st
                    ELSE IF i \in ok
                         THEN put_object(st, key,
                                  serialize_im(im_stack[i], FRAME_FILE_FORMAT))
                         ELSE st
         IN upload_frames_loop(st1, folder_name, file_names, im_stack, ok, i + 1)

\* DataStorage.upload_frames: [st |-> bucket afterwards, err |-> exception]
upload_frames(st, folder_name, file_names, im_stack, ok) ==
    IF Len(file_names) # Len(im_stack)
    THEN [st |-> st, err |-> "AssertionError"]
    ELSE [st |-> upload_frames_loop(st, folder_name, file_names, im_stack, ok, 1),
          err |-> "none"]

\* DataStorage.upload_file: transfer_ok is whether boto3's upload succeeds
upload_file(st, folder_name, file_no_path, body, transfer_ok) ==
    IF ~assert_unique_id(st, folder_name)
    THEN [st |-> st, err |-> "AssertionError"]
    ELSE IF ~transfer_ok
    THEN [st |-> st, err |-> "ClientError"]
    ELSE [st |-> put_object(st, <<folder_name, file_no_path>>, body),
          err |-> "none"]

---------------------------------------------------------------------------
(* Splitters *)

\* label in s, for strings
Contains(s, sub) ==
    \E i \in 1..(Len(s) - Len(sub) + 1) : SubSeq(s, i, i + Len(sub) - 1) = sub

\* int(label.split('_')[1][4:]): the tile number of a position label
TileOf(label) ==
    CASE label = "roi1_tile1" -> 1
      [] label = "roi1_tile10" -> 10
      [] label = "roi2_tile1" -> 1

\* next((s for s in glob_paths if label in s), None), as a sequence of no
\* or one path
FirstContaining(glob_paths, label) ==
    LET idx == {j \in DOMAIN glob_paths : Contains(glob_paths[j].name, label)}
    IN IF idx = {} THEN << >>
       ELSE <<glob_paths[CHOOSE j \in idx : \A m \in idx : j <= m]>>

RECURSIVE validate_loop(_, _, _, _)
\* the for loop of SlideExplorerSplitter._validate_file_paths from the i-th
\* position label on
validate_loop(position_labels, positions, glob_paths, i) ==
    IF i > Len(position_labels) THEN << >>
    ELSE LET label == position_labels[i]
             found == IF positions.all \/ TileOf(label) \in positions.list
                      THEN FirstContaining(glob_paths, label)
                      ELSE << >>
         IN found \o validate_loop(position_labels, positions, glob_paths,
                                   i + 1)

\* SlideExplorerSplitter._validate_file_paths, without its final assert
_validate_file_paths(roi, positions, glob_paths, position_list) ==
    LET roi_label == "roi" \o ToString(roi)
        HasRoi(label) == Contains(label, roi_label)
    IN validate_loop(SelectSeq(position_list, HasRoi), positions,
                     glob_paths, 1)

\* file_paths of SlideExplorerSplitter.get_frames_and_metadata, lines
\* 82-117: the file itself, or the *.ome.tif files globbed in a directory,
\* restricted to the positions asked for; empty when an assert fails
FilePaths(src) ==
    IF isfile(src) THEN <<src>>
    ELSE IF ~isdir(src) \/ src.files = << >> THEN << >>
    ELSE IF src.positions.all \/ src.positions.list # {}
    THEN _validate_file_paths(1, src.positions, src.files, src.position_list)
    ELSE src.files

\* OmeTiffSplitter.split_file: the metadata rows and the frames of one
\* position file.  Page k of the file is slice k-1 at the position its
\* metadata names.
split_file_meta(file) ==
    [k \in 1..file.npages |->
        LET idx == [channel_idx |-> 0, slice_idx |-> k - 1,
                    time_idx |-> 0, pos_idx |-> PositionIndex(file)]
        IN [channel_idx |-> idx.channel_idx, slice_idx |-> idx.slice_idx,
            time_idx |-> idx.time_idx, pos_idx |-> idx.pos_idx,
            file_name |-> _get_imname(idx),
            sha256 |-> gen_sha256(Pixels(file, k))]]

split_file_stack(file) == [k \in 1..file.npages |-> Pixels(file, k)]

\* list(file_meta["file_name"])
FileNames(file_meta) == [i \in DOMAIN file_meta |-> file_meta[i].file_name]

RECURSIVE slide_explorer_loop(_, _, _, _, _, _)
\* the loop over position files of
\* SlideExplorerSplitter.get_frames_and_metadata, from file f on;
\* ok is the set of <<file, page>> whose put the store acknowledges
slide_explorer_loop(st, dir, file_paths, ok, frames_meta, f) ==
    IF f > Len(file_paths)
    THEN [st |-> st, frames_meta |-> frames_meta, err |-> "none"]
    ELSE LET file_meta == split_file_meta(file_paths[f])
             up == upload_frames(st, dir, FileNames(file_meta),
                                 split_file_stack(file_paths[f]),
                                 {k \in DOMAIN file_meta : <<f, k>> \in ok})
         IN IF up.err # "none"
            THEN [st |-> up.st, frames_meta |-> frames_meta \o file_meta,
                  err |-> up.err]
            ELSE slide_explorer_loop(up.st, dir, file_paths, ok,
                                     frames_meta \o file_meta, f + 1)

\* SlideExplorerSplitter.get_frames_and_metadata
slide_explorer_get_frames_and_metadata(st, dir, src, ok) ==
    IF FilePaths(src) = << >>
    THEN [st |-> st, err |-> "AssertionError",
          frames_meta |-> None, global_meta |-> None]
    ELSE LET r == slide_explorer_loop(st, dir, FilePaths(src), ok, << >>, 1)
         IN [st |-> r.st,
             err |-> r.err,
             frames_meta |-> IF r.err = "none" THEN r.frames_meta ELSE None,
             global_meta |-> IF r.err = "none"
                             THEN set_global_meta(dir, r.frames_meta,
                                                  Len(r.frames_meta))
                             ELSE None]

\* the rows LifSplitter.get_frames_and_metadata builds, lines 101-108
lif_frames_meta(nbr_frames) ==
    [i \in 1..nbr_frames |->
        LET idx == [channel_idx |-> 0, slice_idx |-> 0,
                    time_idx |-> 0, pos_idx |-> i - 1]
        IN [channel_idx |-> idx.channel_idx, slice_idx |-> idx.slice_idx,
            time_idx |-> idx.time_idx, pos_idx |-> idx.pos_idx,
            file_name |-> _get_imname(idx),
            sha256 |-> None]]

\* LifSplitter.get_frames_and_metadata: the file is read as a series of
\* nbr_frames images, image i is position i; the upload of the stack is
\* commented out, and frames_meta has no sha256 column.
lif_get_frames_and_metadata(st, dir, src) ==
    IF ~isfile(src)
    THEN [st |-> st, err |-> "AssertionError",
          frames_meta |-> None, global_meta |-> None]
    ELSE LET nbr_frames == src.npages
             frames_meta == lif_frames_meta(nbr_frames)
         IN [st |-> st, err |-> "none",
             frames_meta |-> frames_meta,
             global_meta |-> set_global_meta(dir, frames_meta, nbr_frames)]

---------------------------------------------------------------------------
(* Catalog: imaging_db.database.db_operations *)

EmptyCatalog ==
    [data_set |-> {}, frames_global |-> {}, frames |-> {}, file_global |-> {}]

\* cli_utils.validate_id: TRUE iff the serial is well formed
validate_id(dataset_serial) == dataset_serial \in ValidSerials

\* DatabaseOperations.assert_unique_id: TRUE iff the assertion passes
db_assert_unique_id(cat, dataset_serial) ==
    \A d \in cat.data_set : d.dataset_serial # dataset_serial

\* primary key of a new data_set row
NewId(cat) == Cardinality(cat.data_set) + 1

\* the rows DatabaseOperations.insert_frames adds to the session, in order
insert_frames_adds(cat, dataset_serial, frames_meta, global_meta) ==
    LET id == NewId(cat)
    IN << [table |-> "data_set",
           row |-> [id |-> id, dataset_serial |-> dataset_serial,
                    frames |-> TRUE]],
          [table |-> "frames_global",
           row |-> [data_set_id |-> id,
                    storage_dir |-> global_meta.s3_dir,
                    nbr_frames |-> global_meta.nbr_frames,
                    nbr_slices |-> global_meta.nbr_slices,
                    nbr_channels |-> global_meta.nbr_channels,
                    nbr_timepoints |-> global_meta.nbr_timepoints,
                    nbr_positions |-> global_meta.nbr_positions]] >>
       \o [i \in DOMAIN frames_meta |->
            [table |-> "frames",
             row |-> [id |-> i,
                      frames_global_id |-> id,
                      channel_idx |-> frames_meta[i].channel_idx,
                      slice_idx |-> frames_meta[i].slice_idx,
                      time_idx |-> frames_meta[i].time_idx,
                      pos_idx |-> frames_meta[i].pos_idx,
                      file_name |-> frames_meta[i].file_name,
                      sha256 |-> frames_meta[i].sha256]]]

\* the rows DatabaseOperations.insert_file adds to the session, in order
insert_file_adds(cat, dataset_serial, storage_dir, file_name, sha256) ==
    LET id == NewId(cat)
    IN << [table |-> "data_set",
           row |-> [id |-> id, dataset_serial |-> dataset_serial,
                    frames |-> FALSE]],
          [table |-> "file_global",
           row |-> [data_set_id |-> id, storage_dir |-> storage_dir,
                    file_name |-> file_name, sha256 |-> sha256]] >>

RECURSIVE Flush(_, _, _)
\* the catalog as the session sees it after its first n adds
Flush(cat, adds, n) ==
    IF n = 0 THEN cat
    ELSE LET c == Flush(cat, adds, n - 1)
             a == adds[n]
         IN [c EXCEPT ![a.table] = @ \cup {a.row}]

\* session_scope: commit on normal exit, rollback on any error.
\* fail_at = 0: no statement fails; fail_at = n: the n-th add raises.
session_scope(cat, adds, fail_at) ==
    IF fail_at = 0 THEN Flush(cat, adds, Len(adds)) ELSE cat

---------------------------------------------------------------------------
(* imaging_db/cli/data_uploader.py: upload_data_and_update_db *)

\* "/".join([FRAME_FOLDER_NAME, dataset_serial]) or the file folder
\* the storage directory without the serial
StorageDir_NoSerial(upload_type, dataset_serial) ==
    IF upload_type = "frames" THEN FRAME_FOLDER_NAME ELSE FILE_FOLDER_NAME

StorageDir(upload_type, dataset_serial) ==
    IF upload_type = "frames"
    THEN FRAME_FOLDER_NAME \o "/" \o dataset_serial
    ELSE FILE_FOLDER_NAME \o "/" \o dataset_serial

\* row.file_name.split("/")[-1]: every source path ends in the same name
FileNoPath(src) == "data.tif"

\* the bytes of the source file
FileBytes(src) == <<"raw", src.ver, src.npages>>

\* a row whose file_name has not been read yet
Unread == [npages |-> 0, ver |-> "unread"]

Row == row
NoRow == [dataset_id |-> None, file_name |-> None]
storage_dir == StorageDir(run.upload_type, Row.dataset_id)

NoInst == [frames_meta |-> None, global_meta |-> None]

\* what is remembered of the row processed before the current one
NoPrev == [dataset_id |-> None, file_name |-> Unread, upload_type |-> None,
           frames_format |-> None, overwrite |-> FALSE, state |-> None,
           reason |-> "none"]

\* hist observes the current row: the catalog and the bucket when the row
\* was read (cat0, sto0), the keys whose put the store acknowledged, the
\* objects the source serializes to, whether the catalog insert was
\* called, the row processed before it when that row was ingested with
\* overwrite set (prev), and the rows of the batch whose session scope
\* committed rows to the catalog (committed)
NoHist == [cat0 |-> EmptyCatalog, sto0 |-> << >>, acked |-> {},
           produced |-> {}, insert_called |-> FALSE, prev |-> NoPrev,
           committed |-> {}]

\* the current row as the next row will remember it
Summary ==
    IF file_nbr = 0 THEN hist.prev
    ELSE IF ~run.overwrite THEN NoPrev
    ELSE [dataset_id |-> row.dataset_id, file_name |-> row.file_name,
          upload_type |-> run.upload_type,
          frames_format |-> run.frames_format,
          overwrite |-> run.overwrite, state |-> row_state[file_nbr],
          reason |-> reason[file_nbr]]

\* The rows of the csv are read one at a time: how many rows follow the
\* current one shows when the loop ends.  row_state and reason list the
\* rows read so far; the rows an exception leaves unread are appended as
\* Pending when the invocation ends.

\* Raise as a coordinator that records the failure and goes on to the next
\* row
Raise_Continue(why, exc) ==
    /\ row_state' = [row_state EXCEPT ![file_nbr] = "Failed"]
    /\ reason' = [reason EXCEPT ![file_nbr] = why]
    /\ raised' = raised
    /\ \/ pc' = "idle"
       \/ /\ nrows_read < MaxIngest
          /\ pc' = "next_row"
    /\ frames_inst' = NoInst

\* the row ends with an exception that leaves upload_data_and_update_db,
\* with some number of rows of the csv still unread
Raise(why, exc) ==
    /\ \E unread \in 0..(MaxIngest - nrows_read) :
          /\ row_state' = [row_state EXCEPT ![file_nbr] = "Failed"]
                              \o [i \in 1..unread |-> "Pending"]
          /\ reason' = [reason EXCEPT ![file_nbr] = why]
                           \o [i \in 1..unread |-> "none"]
    /\ raised' = exc
    /\ pc' = "idle"
    /\ frames_inst' = NoInst

\* the row ends and the for loop goes on to the next row, if there is one
Continue(state, why) ==
    /\ row_state' = [row_state EXCEPT ![file_nbr] = state]
    /\ reason' = [reason EXCEPT ![file_nbr] = why]
    /\ raised' = raised
    /\ \/ pc' = "idle"
       \/ /\ nrows_read < MaxIngest
          /\ pc' = "next_row"
    /\ frames_inst' = NoInst

\* a channels filter given as a string, None when it is not
ChannelsArgs == {None, "1", "channel1"}

\* the filters a caller of the retrieval asks for: the filtered dimensions
\* with the values wanted of each, and the channels asked for as a string
Filters ==
    {f \in [dims : {{}, {"slice_idx"}},
            want : {[channel_idx |-> {0}, slice_idx |-> {0},
                     time_idx |-> {0}, pos_idx |-> {0}]},
            channels : ChannelsArgs] :
        f.dims = {} \/ f.channels = None}

\* the arguments of data_downloader.download_data
DownloadArgs ==
    [id : {"TEST-2005-06-09-20-00-00-1000"} \cup InvalidSerials,
     metadata : BOOLEAN, download : BOOLEAN, filters : Filters]

\* how many of the attempts to transfer an item fail before one succeeds;
\* the last value stands for an item that cannot be transferred
AttemptFailures == 0..3

\* n failures use up the attempts an item is given
Exhausted(n) == \A m \in AttemptFailures : m <= n

\* DatabaseOperations.get_filenames: the storage directory and the objects
\* of the dataset, the planes in the order of their rows
get_filenames(cat, dataset_serial) ==
    LET ds == {d \in cat.data_set : d.dataset_serial = dataset_serial}
    IN IF ds = {}
       THEN [err |-> "dataset-not-found", folder_name |-> None,
             file_names |-> << >>]
       ELSE LET d == CHOOSE x \in ds : TRUE
            IN IF d.frames
               THEN LET g == CHOOSE x \in cat.frames_global :
                                 x.data_set_id = d.id
                        rows == {f \in cat.frames :
                                    f.frames_global_id = d.id}
                    IN [err |-> "none", folder_name |-> g.storage_dir,
                        file_names |->
                            [i \in 1..Cardinality(rows) |->
                                (CHOOSE f \in rows : f.id = i).file_name]]
               ELSE LET g == CHOOSE x \in cat.file_global :
                                 x.data_set_id = d.id
                    IN [err |-> "none", folder_name |-> g.storage_dir,
                        file_names |-> <<g.file_name>>]

\* DatabaseOperations.get_frames_meta: the FramesGlobal of the dataset with
\* its folder_name, and its Frames rows in order
get_frames_meta(cat, dataset_serial) ==
    LET ds == {d \in cat.data_set : d.dataset_serial = dataset_serial}
    IN IF ds = {}
       THEN [err |-> "dataset-not-found", global_meta |-> None,
             frames_meta |-> << >>]
       ELSE LET d == CHOOSE x \in ds : TRUE
            IN IF ~d.frames
               THEN [err |-> "not-frames", global_meta |-> None,
                     frames_meta |-> << >>]
               ELSE LET g == CHOOSE x \in cat.frames_global :
                                 x.data_set_id = d.id
                        rows == {f \in cat.frames :
                                    f.frames_global_id = d.id}
                    IN [err |-> "none",
                        global_meta |-> [folder_name |-> g.storage_dir,
                                         nbr_frames |-> g.nbr_frames],
                        frames_meta |->
                            [i \in 1..Cardinality(rows) |->
                                CHOOSE f \in rows : f.id = i]]

\* a file written into a local directory
write_file(dir, name, content) ==
    [k \in DOMAIN dir \cup {name} |-> IF k = name THEN content ELSE dir[k]]

\* what <dest>/<serial> holds when it exists before the download
OldDest == write_file(<< >>, "notes.txt", "kept")

\* no download_data is running.  dest is the content of <dest>/<serial>,
\* made tells whether download_data created it, file_names, folder_name
\* and i are the locals of its loop; fails records for every item the loop
\* took up how many attempts at it fail, attempts how many were made;
\* catalog_read tells whether the catalog was queried.
NoDownload ==
    [args |-> [id |-> None, metadata |-> TRUE, download |-> TRUE,
               filters |-> CHOOSE f \in Filters :
                               f.dims = {} /\ f.channels = None],
     dest_existed |-> FALSE, made |-> FALSE, dest |-> << >>,
     folder_name |-> None, file_names |-> << >>, i |-> 0,
     fails |-> << >>, attempts |-> << >>,
     catalog_read |-> FALSE, printed |-> {}, raised |-> "none"]

Init ==
    /\ storage = << >>
    /\ catalog = EmptyCatalog
    /\ pc = "idle"
    /\ run = [upload_type |-> "frames", frames_format |-> "slide_explorer",
              overwrite |-> FALSE]
    /\ row = NoRow
    /\ file_nbr = 0
    /\ frames_inst = NoInst
    /\ row_state = << >>
    /\ reason = << >>
    /\ raised = "none"
    /\ nrows_read = 0
    /\ hist = NoHist
    /\ dl = NoDownload

\* lines 105-148: read the csv and the config
StartRun(config, overwrite) ==
    /\ pc = "idle"
    /\ nrows_read < MaxIngest
    /\ run' = [upload_type |-> config.upload_type,
               frames_format |-> config.frames_format,
               overwrite |-> overwrite]
    /\ row' = NoRow
    /\ file_nbr' = 0
    /\ row_state' = << >>
    /\ reason' = << >>
    /\ raised' = "none"
    /\ pc' = "next_row"
    /\ hist' = [NoHist EXCEPT !.prev = Summary]
    /\ UNCHANGED <<storage, catalog, frames_inst, nrows_read, dl>>

\* line 150: files_data.iterrows() yields the next row
NextRow(dataset_id) ==
    /\ pc = "next_row"
    /\ file_nbr' = file_nbr + 1
    /\ nrows_read' = nrows_read + 1
    /\ row' = [dataset_id |-> dataset_id, file_name |-> Unread]
    /\ row_state' = Append(row_state, "Validating")
    /\ reason' = Append(reason, "none")
    /\ pc' = "validate"
    /\ hist' = [NoHist EXCEPT !.cat0 = catalog, !.sto0 = storage,
                              !.prev = Summary,
                              !.committed = hist.committed]
    /\ UNCHANGED <<storage, catalog, run, frames_inst, raised, dl>>

\* ValidateRow without the catalog uniqueness check of lines 168-170
ValidateRow_NoUniqueCheck ==
    /\ pc = "validate"
    /\ IF ~validate_id(Row.dataset_id)
       THEN Raise("invalid-id", "AssertionError")
       ELSE /\ row_state' = [row_state EXCEPT ![file_nbr] = "Uploading"]
            /\ pc' = IF run.upload_type = "frames" THEN "construct"
                     ELSE "check_file"
            /\ UNCHANGED <<reason, raised, frames_inst>>
    /\ UNCHANGED <<storage, catalog, run, row, file_nbr, nrows_read, hist, dl>>

\* lines 151-170: validate the id, and unless overwrite assert that the
\* serial is not in the catalog; neither exception is caught
ValidateRow ==
    /\ pc = "validate"
    /\ IF ~validate_id(Row.dataset_id)
       THEN Raise("invalid-id", "AssertionError")
       ELSE IF ~run.overwrite /\ ~db_assert_unique_id(catalog, Row.dataset_id)
       THEN Raise("duplicate-id", "AssertionError")
       ELSE /\ row_state' = [row_state EXCEPT ![file_nbr] = "Uploading"]
            /\ pc' = IF run.upload_type = "frames" THEN "construct"
                     ELSE "check_file"
            /\ UNCHANGED <<reason, raised, frames_inst>>
    /\ UNCHANGED <<storage, catalog, run, row, file_nbr, nrows_read, hist, dl>>

\* ConstructSplitter whose splitter never asserts that the folder is empty
ConstructSplitter_NoUniqueCheck ==
    /\ pc = "construct"
    /\ pc' = "split"
    /\ UNCHANGED <<row_state, reason, raised, frames_inst>>
    /\ UNCHANGED <<storage, catalog, run, row, file_nbr, nrows_read, hist, dl>>

\* lines 183-191 and FileSplitter.__init__: the splitter asserts that the
\* storage folder is empty unless overwrite
ConstructSplitter ==
    /\ pc = "construct"
    /\ IF ~run.overwrite /\ ~assert_unique_id(storage, storage_dir)
       THEN Raise("storage-exists", "AssertionError")
       ELSE /\ pc' = "split"
            /\ UNCHANGED <<row_state, reason, raised, frames_inst>>
    /\ UNCHANGED <<storage, catalog, run, row, file_nbr, nrows_read, hist, dl>>


\* the objects the frames of a source serialize to, as <<key, body>> pairs
Produced(src, dir, frames_format) ==
    IF frames_format = "lif"
    THEN IF isdir(src) THEN {}
         ELSE {<< <<dir, lif_frames_meta(src.npages)[i].file_name>>,
                  serialize_im(Pixels(src, i), FRAME_FILE_FORMAT) >> :
               i \in 1..src.npages}
    ELSE LET file_paths == FilePaths(src)
         IN UNION {{<< <<dir, split_file_meta(file_paths[f])[k].file_name>>,
                       serialize_im(Pixels(file_paths[f], k),
                                    FRAME_FILE_FORMAT) >> :
                    k \in 1..file_paths[f].npages} :
                   f \in DOMAIN file_paths}

\* line 204: frames_inst.get_frames_and_metadata(**kwargs), dispatched on
\* the splitter class chosen from frames_format
get_frames_and_metadata(st, dir, src, frames_format, ok) ==
    IF frames_format = "lif"
    THEN lif_get_frames_and_metadata(st, dir, src)
    ELSE slide_explorer_get_frames_and_metadata(st, dir, src, ok)

\* src is what row.file_name turns out to hold, ok the puts that succeed
GetFramesAndMetadata(src, ok) ==
    /\ pc = "split"
    /\ row' = [row EXCEPT !.file_name = src]
    /\ LET r == get_frames_and_metadata(storage, storage_dir, src,
                                        run.frames_format, ok)
       IN /\ storage' = r.st
          /\ hist' = [hist EXCEPT
                        !.acked = DOMAIN r.st \ DOMAIN storage,
                        !.produced = Produced(src, storage_dir,
                                              run.frames_format)]
          /\ IF r.err # "none"
             THEN Raise("source-error", r.err)
             ELSE /\ frames_inst' = [frames_meta |-> r.frames_meta,
                                     global_meta |-> r.global_meta]
                  /\ pc' = "insert"
                  /\ UNCHANGED <<row_state, reason, raised>>
    /\ UNCHANGED <<catalog, run, file_nbr, nrows_read, dl>>

\* the process is interrupted (KeyboardInterrupt) inside
\* get_frames_and_metadata: the puts of ok were made, the other planes were
\* not reached.  The except Exception of upload_frames does not catch it.
Interrupt(src, ok) ==
    /\ pc = "split"
    /\ row' = [row EXCEPT !.file_name = src]
    /\ LET r == get_frames_and_metadata(storage, storage_dir, src,
                                        run.frames_format, ok)
       IN /\ r.err = "none"
          /\ storage' = r.st
          /\ hist' = [hist EXCEPT
                        !.acked = DOMAIN r.st \ DOMAIN storage,
                        !.produced = Produced(src, storage_dir,
                                              run.frames_format)]
          /\ Raise("interrupted", "KeyboardInterrupt")
    /\ UNCHANGED <<catalog, run, file_nbr, nrows_read, dl>>

\* DatabaseOperations.insert_frames inside the caller's session: it asserts
\* that the serial is new, then adds the rows
insert_frames(cat, dataset_serial, frames_meta, global_meta) ==
    IF ~db_assert_unique_id(cat, dataset_serial)
    THEN [adds |-> << >>, err |-> "AssertionError"]
    ELSE [adds |-> insert_frames_adds(cat, dataset_serial, frames_meta,
                                      global_meta),
          err |-> "none"]

\* DatabaseOperations.insert_file inside the caller's session
insert_file(cat, dataset_serial, dir, file_name, sha256) ==
    IF ~db_assert_unique_id(cat, dataset_serial)
    THEN [adds |-> << >>, err |-> "AssertionError"]
    ELSE [adds |-> insert_file_adds(cat, dataset_serial, dir, file_name,
                                    sha256),
          err |-> "none"]

\* InsertInScope without the except AssertionError of lines 217 and 253
InsertInScope_NoCatch(cat, ins, fail_at) ==
    IF ins.err # "none"
    THEN [cat |-> session_scope(cat, ins.adds, 1), out |-> ins.err]
    ELSE [cat |-> session_scope(cat, ins.adds, fail_at),
          out |-> IF fail_at = 0 THEN "commit" ELSE "DBError"]

\* InsertInScope committing the adds made before the failing one, as if
\* every add had a session scope of its own
InsertInScope_PartialCommit(cat, ins, fail_at) ==
    IF ins.err # "none"
    THEN [cat |-> session_scope(cat, ins.adds, 1), out |-> "caught"]
    ELSE [cat |-> IF fail_at = 0 THEN session_scope(cat, ins.adds, 0)
                  ELSE Flush(cat, ins.adds, fail_at - 1),
          out |-> IF fail_at = 0 THEN "commit" ELSE "DBError"]

\* lines 207-220 and 242-256: one session scope around the whole insert;
\* an AssertionError is caught and printed, anything else propagates.
\* ins is the result of insert_frames or insert_file, fail_at the add at
\* which the database raises (0: none)
InsertInScope(cat, ins, fail_at) ==
    IF ins.err # "none"
    THEN [cat |-> session_scope(cat, ins.adds, 1), out |-> "caught"]
    ELSE [cat |-> session_scope(cat, ins.adds, fail_at),
          out |-> IF fail_at = 0 THEN "commit" ELSE "DBError"]

\* AfterInsert reporting a caught AssertionError as a cataloged row
AfterInsert_CaughtCataloged(r) ==
    /\ catalog' = r.cat
    /\ hist' = [hist EXCEPT !.insert_called = TRUE,
                            !.committed = IF r.cat # catalog
                                          THEN @ \cup {file_nbr} ELSE @]
    /\ CASE r.out = "commit" -> Continue("Cataloged", "none")
         [] r.out = "caught" -> Continue("Cataloged", "none")
         [] OTHER -> Raise("catalog-error", r.out)
    /\ UNCHANGED <<storage, run, row, file_nbr, nrows_read, dl>>

\* the end of a row after its insert, for both upload types
AfterInsert(r) ==
    /\ catalog' = r.cat
    /\ hist' = [hist EXCEPT !.insert_called = TRUE,
                            !.committed = IF r.cat # catalog
                                          THEN @ \cup {file_nbr} ELSE @]
    /\ CASE r.out = "commit" -> Continue("Cataloged", "none")
         [] r.out = "caught" -> Continue("Failed", "duplicate-id")
         [] OTHER -> Raise("catalog-error", r.out)
    /\ UNCHANGED <<storage, run, row, file_nbr, nrows_read, dl>>

\* lines 206-220: add frames metadata to the database
InsertFrames(fail_at) ==
    /\ pc = "insert"
    /\ LET ins == insert_frames(catalog, Row.dataset_id,
                                frames_inst.frames_meta,
                                frames_inst.global_meta)
       IN /\ fail_at <= Len(ins.adds)
          /\ AfterInsert(InsertInScope(catalog, ins, fail_at))

\* lines 224-231: the source must be a file; unless overwrite the storage
\* folder must be empty.  src is what row.file_name turns out to hold
CheckFile(src) ==
    /\ pc = "check_file"
    /\ row' = [row EXCEPT !.file_name = src]
    /\ IF ~isfile(src)
       THEN Raise("source-error", "AssertionError")
       ELSE IF ~run.overwrite /\ ~assert_unique_id(storage, storage_dir)
       THEN Raise("storage-exists", "AssertionError")
       ELSE /\ pc' = "upload_file"
            /\ UNCHANGED <<row_state, reason, raised, frames_inst>>
    /\ UNCHANGED <<storage, catalog, run, file_nbr, nrows_read, hist, dl>>

\* lines 232-238: upload the file; an AssertionError (folder not empty) is
\* caught and the row moves on to the catalog entry
UploadFile(transfer_ok) ==
    /\ pc = "upload_file"
    /\ LET r == upload_file(storage, storage_dir, FileNoPath(Row.file_name),
                            FileBytes(Row.file_name), transfer_ok)
       IN /\ storage' = r.st
          /\ hist' = [hist EXCEPT
                        !.acked = DOMAIN r.st \ DOMAIN storage,
                        !.produced = {<< <<storage_dir,
                                           FileNoPath(Row.file_name)>>,
                                         FileBytes(Row.file_name) >>}]
          /\ IF r.err \notin {"none", "AssertionError"}
             THEN Raise("transient-io", r.err)
             ELSE /\ pc' = "insert_file"
                  /\ UNCHANGED <<row_state, reason, raised, frames_inst>>
    /\ UNCHANGED <<catalog, run, row, file_nbr, nrows_read, dl>>

\* InsertFile committing the DataSet row without its FileGlobal row
InsertFile_NoFileGlobal(fail_at) ==
    /\ pc = "insert_file"
    /\ LET sha == gen_sha256(FileBytes(Row.file_name))
           ins0 == insert_file(catalog, Row.dataset_id, storage_dir,
                               FileNoPath(Row.file_name), sha)
           ins == [ins0 EXCEPT !.adds = IF @ = << >> THEN @ ELSE <<@[1]>>]
       IN /\ fail_at <= Len(ins.adds)
          /\ AfterInsert(InsertInScope(catalog, ins, fail_at))

\* lines 238-256: hash the source file and add the file entry
InsertFile(fail_at) ==
    /\ pc = "insert_file"
    /\ LET sha == gen_sha256(FileBytes(Row.file_name))
           ins == insert_file(catalog, Row.dataset_id, storage_dir,
                              FileNoPath(Row.file_name), sha)
       IN /\ fail_at <= Len(ins.adds)
          /\ AfterInsert(InsertInScope(catalog, ins, fail_at))

\* one step of the program, the batch descriptors drawing their dataset
\* ids from ids and their sources from srcs
---------------------------------------------------------------------------
(* imaging_db/cli/data_downloader.py: download_data *)

\* download_data ends with exception exc
DownloadRaise(d, exc) ==
    /\ dl' = [d EXCEPT !.raised = exc]
    /\ pc' = "dl_done"

\* lines 79-93: the id is validated, a failure is printed; the destination
\* folder is made, and when it exists that is printed and the function
\* returns
DownloadStart(args, dest_exists) ==
    /\ pc = "idle"
    /\ LET printed == IF validate_id(args.id) THEN {} ELSE {"Invalid ID"}
           d == [NoDownload EXCEPT !.args = args,
                                   !.dest_existed = dest_exists]
       IN IF dest_exists
          THEN /\ dl' = [d EXCEPT !.dest = OldDest,
                                  !.printed = printed \cup {"Folder exists"}]
               /\ pc' = "dl_done"
          ELSE /\ dl' = [d EXCEPT !.made = TRUE, !.printed = printed]
               /\ pc' = "dl_query"
    /\ UNCHANGED <<storage, catalog, run, row, file_nbr, frames_inst,
                   row_state, reason, raised, nrows_read, hist>>

\* lines 95-130: the catalog is queried for the objects of the dataset,
\* and with metadata set the two metadata files are written
DownloadQuery ==
    /\ pc = "dl_query"
    /\ IF ~dl.args.metadata
       THEN IF ~dl.args.download
            THEN DownloadRaise(dl, "AssertionError")
            ELSE LET r == get_filenames(catalog, dl.args.id)
                     d == [dl EXCEPT !.catalog_read = TRUE]
                 IN IF r.err # "none"
                    THEN DownloadRaise(d, r.err)
                    ELSE /\ dl' = [d EXCEPT !.folder_name = r.folder_name,
                                            !.file_names = r.file_names,
                                            !.i = 1]
                         /\ pc' = "dl_files"
       ELSE LET r == get_frames_meta(catalog, dl.args.id)
                d == [dl EXCEPT !.catalog_read = TRUE]
            IN IF r.err # "none"
               THEN DownloadRaise(d, r.err)
               ELSE /\ dl' = [d EXCEPT
                                !.dest = write_file(
                                    write_file(dl.dest,
                                               "global_metadata.json",
                                               r.global_meta),
                                    "frames_meta.csv", r.frames_meta),
                                !.folder_name = r.global_meta.folder_name,
                                !.file_names =
                                    [i \in DOMAIN r.frames_meta |->
                                        r.frames_meta[i].file_name],
                                !.i = 1]
                    /\ pc' = IF dl.args.download THEN "dl_files"
                                                 ELSE "dl_done"
    /\ UNCHANGED <<storage, catalog, run, row, file_nbr, frames_inst,
                   row_state, reason, raised, nrows_read, hist>>

\* lines 136-138: one turn of the loop.  The item is attempted once; nfail
\* tells how many attempts at it fail, all of them when storage does not
\* hold the object.
DownloadFile(nfail) ==
    /\ pc = "dl_files"
    /\ IF dl.i > Len(dl.file_names)
       THEN /\ nfail = 0
            /\ dl' = dl
            /\ pc' = "dl_done"
       ELSE LET f == dl.file_names[dl.i]
                key == <<dl.folder_name, f>>
                d == [dl EXCEPT !.fails = Append(dl.fails, nfail),
                                !.attempts = Append(dl.attempts, 1)]
            IN /\ key \notin DOMAIN storage => Exhausted(nfail)
               /\ IF nfail > 0
                  THEN DownloadRaise(d, "ClientError")
                  ELSE /\ dl' = [d EXCEPT
                                   !.dest = write_file(dl.dest, f,
                                                       storage[key]),
                                   !.i = dl.i + 1]
                       /\ pc' = "dl_files"
    /\ UNCHANGED <<storage, catalog, run, row, file_nbr, frames_inst,
                   row_state, reason, raised, nrows_read, hist>>

\* the process of download_data ends
DownloadExit ==
    /\ pc = "dl_done"
    /\ dl' = NoDownload
    /\ pc' = "idle"
    /\ UNCHANGED <<storage, catalog, run, row, file_nbr, frames_inst,
                   row_state, reason, raised, nrows_read, hist>>

Step(ids, srcs) ==
    \/ \E config \in Configs, o \in BOOLEAN : StartRun(config, o)
    \/ \E id \in ids : NextRow(id)
    \/ ValidateRow
    \/ ConstructSplitter
    \/ \E src \in srcs, ok \in SUBSET ({1} \X (1..MaxPages)) :
          GetFramesAndMetadata(src, ok)
    \/ \E fail_at \in 0..(2 + MaxPages) : InsertFrames(fail_at)
    \/ \E src \in srcs : CheckFile(src)
    \/ \E transfer_ok \in BOOLEAN : UploadFile(transfer_ok)
    \/ \E fail_at \in 0..2 : InsertFile(fail_at)

\* batches about one dataset (and ill-formed ids)
Next == Step({"TEST-2005-06-09-20-00-00-1000"} \cup InvalidSerials, Sources)

Spec == Init /\ [][Next]_vars

\* batches about two datasets, all sources with the same pixel contents
NextTwo == Step(Serials, {src \in Sources : src.ver # "b" /\ src.npages <= 1})

SpecTwo == Init /\ [][NextTwo]_vars

\* frames ingestions of one dataset from position sets and position files,
\* without overwrite, every put and every insert succeeding
NextSplit ==
    \/ \E f \in FramesFormats :
          StartRun([upload_type |-> "frames", frames_format |-> f], FALSE)
    \/ NextRow("TEST-2005-06-09-20-00-00-1000")
    \/ ValidateRow
    \/ ConstructSplitter
    \/ \E src \in PositionSets \cup PositionFiles \cup Sources :
          GetFramesAndMetadata(src, (DOMAIN TileLabels) \X (1..MaxPages))
    \/ InsertFrames(0)

SpecSplit == Init /\ [][NextSplit]_vars

\* ingestions without overwrite of one dataset from single files with the
\* same pixel contents, and downloads between the ingestions
NextDownload ==
    \/ \E config \in Configs : StartRun(config, FALSE)
    \/ NextRow("TEST-2005-06-09-20-00-00-1000")
    \/ ValidateRow
    \/ ConstructSplitter
    \/ \E src \in {s \in Sources : s.ver = "a"},
          ok \in SUBSET ({1} \X (1..MaxPages)) :
          GetFramesAndMetadata(src, ok)
    \/ InsertFrames(0)
    \/ \E src \in {s \in Sources : s.ver = "a"} : CheckFile(src)
    \/ UploadFile(TRUE)
    \/ InsertFile(0)
    \/ \E args \in DownloadArgs, dest_exists \in BOOLEAN :
          DownloadStart(args, dest_exists)
    \/ DownloadQuery
    \/ \E nfail \in AttemptFailures : DownloadFile(nfail)
    \/ DownloadExit

SpecDownload == Init /\ [][NextDownload]_vars

---------------------------------------------------------------------------
(* FileSplitter.upload_stack on its own *)

\* the file names of the planes of one position file
PlaneNames ==
    {_get_imname([channel_idx |-> 0, slice_idx |-> k - 1, time_idx |-> 0,
                  pos_idx |-> 0]) : k \in 1..MaxPages}

\* the pixel buffers of the planes of one file
PlanePixels == {Pixels([npages |-> MaxPages, ver |-> "a"], k) : k \in 1..MaxPages}

\* the sequences of at most n elements of S
SeqsUpTo(S, n) == UNION {[1..m -> S] : m \in 0..n}

\* a splitter holds file names, all different, and an image stack, and is
\* about to upload them to the storage directory of its dataset, which is
\* empty or holds a plane of another version of the source
InitUpload ==
    /\ catalog = EmptyCatalog
    /\ pc = "upload_stack"
    /\ run = [upload_type |-> "frames", frames_format |-> "slide_explorer",
              overwrite |-> TRUE]
    /\ row = [dataset_id |-> "TEST-2005-06-09-20-00-00-1000",
              file_name |-> Unread]
    /\ storage \in {<< >>} \cup
          {put_object(<< >>, <<storage_dir, name>>,
                      serialize_im(Pixels([npages |-> MaxPages, ver |-> "b"], 1),
                                   FRAME_FILE_FORMAT)) : name \in PlaneNames}
    /\ file_nbr = 1
    /\ frames_inst \in
          [file_names : {n \in SeqsUpTo(PlaneNames, MaxPages) :
                            \A i, j \in DOMAIN n : i # j => n[i] # n[j]},
           im_stack : SeqsUpTo(PlanePixels, MaxPages)]
    /\ row_state = <<"Uploading">>
    /\ reason = <<"none">>
    /\ raised = "none"
    /\ nrows_read = 1
    /\ hist = [NoHist EXCEPT !.sto0 = storage]
    /\ dl = NoDownload

\* FileSplitter.upload_stack: upload_frames is called with the file names
\* and the stack, an AssertionError is printed and raised again; ok is the
\* set of indices whose put the store acknowledges
UploadStack(ok) ==
    /\ pc = "upload_stack"
    /\ LET r == upload_frames(storage, storage_dir, frames_inst.file_names,
                              frames_inst.im_stack, ok)
       IN /\ storage' = r.st
          /\ hist' = [hist EXCEPT !.acked = DOMAIN r.st \ DOMAIN storage]
          /\ raised' = r.err
    /\ pc' = "uploaded"
    /\ UNCHANGED <<catalog, run, row, file_nbr, frames_inst, row_state,
                   reason, nrows_read, dl>>

NextUpload == \E ok \in SUBSET (1..MaxPages) : UploadStack(ok)

SpecUpload == InitUpload /\ [][NextUpload]_vars

---------------------------------------------------------------------------
(* the embedded-description tiff splitter (frames_format tif_id) *)

\* the ImageDescription of the first page: images, channels and slices of
\* a stack of whole timepoints
Descriptions ==
    {[images |-> c * z * t, channels |-> c, slices |-> z] :
        c \in 1..MaxPages, z \in 1..(MaxPages + 1), t \in 1..MaxPages}

\* a tiff file with an embedded description
TifSources == [description : Descriptions, ver : Versions]

\* the order of channels and slices the spec words give for page k
\* (0-based): the slice runs fastest
tif_id_indices_SliceFastest(k, description) ==
    [channel_idx |-> (k \div description.slices) % description.channels,
     slice_idx |-> k % description.slices,
     time_idx |-> k \div (description.channels * description.slices),
     pos_idx |-> 0]

\* the indices of page k (0-based) of a stack with the given description:
\* the channel runs fastest, then the slice, then the time
tif_id_indices(k, description) ==
    [channel_idx |-> k % description.channels,
     slice_idx |-> (k \div description.channels) % description.slices,
     time_idx |-> k \div (description.channels * description.slices),
     pos_idx |-> 0]

\* the frames_meta row of page k (0-based) of a file
tif_id_row(file, k) ==
    LET idx == tif_id_indices(k, file.description)
    IN [channel_idx |-> idx.channel_idx, slice_idx |-> idx.slice_idx,
        time_idx |-> idx.time_idx, pos_idx |-> idx.pos_idx,
        file_name |-> _get_imname(idx),
        sha256 |-> gen_sha256(Pixels(file, k + 1))]

\* a tif_id splitter was constructed for a row and has read the
\* description of its file
InitTifId ==
    /\ storage = << >>
    /\ catalog = EmptyCatalog
    /\ pc = "tif_id_pages"
    /\ run = [upload_type |-> "frames", frames_format |-> "tif_id",
              overwrite |-> FALSE]
    /\ row \in [dataset_id : {"TEST-2005-06-09-20-00-00-1000"},
                file_name : TifSources]
    /\ file_nbr = 1
    /\ frames_inst = [frames_meta |-> << >>, im_stack |-> << >>,
                      global_meta |-> None]
    /\ row_state = <<"Uploading">>
    /\ reason = <<"none">>
    /\ raised = "none"
    /\ nrows_read = 1
    /\ hist = NoHist
    /\ dl = NoDownload

\* the next page of the file is read: its plane joins the stack and its
\* row joins frames_meta
TifIdPage ==
    /\ pc = "tif_id_pages"
    /\ Len(frames_inst.frames_meta) < Row.file_name.description.images
    /\ LET k == Len(frames_inst.frames_meta)
       IN frames_inst' =
            [frames_inst EXCEPT
                !.frames_meta = Append(@, tif_id_row(Row.file_name, k)),
                !.im_stack = Append(@, Pixels(Row.file_name, k + 1))]
    /\ UNCHANGED <<storage, catalog, pc, run, row, file_nbr, row_state,
                   reason, raised, nrows_read, hist, dl>>

\* all pages were read: the global metadata is set and the stack is
\* uploaded under the file names of frames_meta
TifIdUpload ==
    /\ pc = "tif_id_pages"
    /\ Len(frames_inst.frames_meta) = Row.file_name.description.images
    /\ frames_inst' =
         [frames_inst EXCEPT
            !.global_meta = set_global_meta(storage_dir, frames_inst.frames_meta,
                                            Row.file_name.description.images)]
    /\ LET r == upload_frames(storage, storage_dir,
                              FileNames(frames_inst.frames_meta),
                              frames_inst.im_stack,
                              DOMAIN frames_inst.im_stack)
       IN /\ storage' = r.st
          /\ raised' = r.err
    /\ pc' = "tif_id_done"
    /\ UNCHANGED <<catalog, run, row, file_nbr, row_state, reason,
                   nrows_read, hist, dl>>

NextTifId == TifIdPage \/ TifIdUpload

SpecTifId == InitTifId /\ [][NextTifId]_vars

---------------------------------------------------------------------------
(* the tiff-folder splitter (frames_format tif_folder) *)

\* the channel names of the files of a folder, in alphabetical order
ChannelNames == <<"666", "brightfield", "phase">>

\* the files img_<channel>_t000_p050_z00<slice>.tif of a folder
FolderFiles ==
    [channel_name : {ChannelNames[i] : i \in DOMAIN ChannelNames},
     slice_idx : 0..(MaxPages - 1), time_idx : {0}, pos_idx : {50}]

\* the enumerations of the tiff files of a folder: some files of the
\* folder, each once, in any order
Enumerations ==
    {e \in SeqsUpTo(FolderFiles, MaxPages + 1) :
        \A i, j \in DOMAIN e : i # j => e[i] # e[j]}

\* the position (1-based) of a name in a list that holds it
IndexOf(names, name) == CHOOSE i \in DOMAIN names : names[i] = name

\* parse_sms_name(file_name, meta_row, channel_names): the indices are
\* read from the name, the channel name is appended to channel_names
\* unless it is there, and channel_idx is its index in the list
parse_sms_name(file, channel_names) ==
    LET present == \E i \in DOMAIN channel_names :
                       channel_names[i] = file.channel_name
        names == IF present THEN channel_names
                 ELSE Append(channel_names, file.channel_name)
    IN [channel_names |-> names,
        meta_row |-> [channel_name |-> file.channel_name,
                      channel_idx |-> IndexOf(names, file.channel_name) - 1,
                      slice_idx |-> file.slice_idx,
                      time_idx |-> file.time_idx,
                      pos_idx |-> file.pos_idx]]

\* the list of channel names left as it was accumulated
sort_channels_Unsorted(channel_names) == channel_names

\* the accumulated channel names in alphabetical order
sort_channels(channel_names) ==
    SelectSeq(ChannelNames,
              LAMBDA c : \E i \in DOMAIN channel_names : channel_names[i] = c)

\* a tiff-folder splitter was constructed for a folder whose files the
\* file system enumerates in some order; no channel name is known yet
InitTifFolder ==
    /\ storage = << >>
    /\ catalog = EmptyCatalog
    /\ pc = "tif_folder_parse"
    /\ run = [upload_type |-> "frames", frames_format |-> "tif_folder",
              overwrite |-> FALSE]
    /\ row \in [dataset_id : {"TEST-2005-06-09-20-00-00-1000"},
                file_name : [frame_paths : Enumerations]]
    /\ file_nbr = 1
    /\ frames_inst = [frames_meta |-> << >>, channel_names |-> << >>,
                      global_meta |-> None]
    /\ row_state = <<"Uploading">>
    /\ reason = <<"none">>
    /\ raised = "none"
    /\ nrows_read = 1
    /\ hist = NoHist
    /\ dl = NoDownload

\* the name of the next enumerated file is parsed: its row joins
\* frames_meta with the channel index the parser gave it
TifFolderParse ==
    /\ pc = "tif_folder_parse"
    /\ Len(frames_inst.frames_meta) < Len(Row.file_name.frame_paths)
    /\ LET i == Len(frames_inst.frames_meta) + 1
           parsed == parse_sms_name(Row.file_name.frame_paths[i],
                                    frames_inst.channel_names)
       IN frames_inst' =
            [frames_inst EXCEPT
                !.frames_meta = Append(@, parsed.meta_row),
                !.channel_names = parsed.channel_names]
    /\ UNCHANGED <<storage, catalog, pc, run, row, file_nbr, row_state,
                   reason, raised, nrows_read, hist, dl>>

\* all names were parsed: the full list of channel names is sorted, every
\* row gets the index of its channel name in the sorted list and its file
\* name, and the global metadata is set
TifFolderFinish ==
    /\ pc = "tif_folder_parse"
    /\ Len(frames_inst.frames_meta) = Len(Row.file_name.frame_paths)
    /\ LET names == sort_channels(frames_inst.channel_names)
           frames_meta ==
              [i \in DOMAIN frames_inst.frames_meta |->
                  LET r == frames_inst.frames_meta[i]
                      idx == [channel_idx |-> IndexOf(names, r.channel_name) - 1,
                              slice_idx |-> r.slice_idx,
                              time_idx |-> r.time_idx,
                              pos_idx |-> r.pos_idx]
                  IN [channel_name |-> r.channel_name,
                      channel_idx |-> idx.channel_idx,
                      slice_idx |-> idx.slice_idx,
                      time_idx |-> idx.time_idx,
                      pos_idx |-> idx.pos_idx,
                      file_name |-> _get_imname(idx)]]
       IN frames_inst' =
            [frames_meta |-> frames_meta,
             channel_names |-> names,
             global_meta |-> set_global_meta(storage_dir, frames_meta,
                                             Len(frames_meta))]
    /\ pc' = "tif_folder_done"
    /\ UNCHANGED <<storage, catalog, run, row, file_nbr, row_state,
                   reason, raised, nrows_read, hist, dl>>

NextTifFolder == TifFolderParse \/ TifFolderFinish

SpecTifFolder == InitTifFolder /\ [][NextTifFolder]_vars

---------------------------------------------------------------------------
(* the products of a splitter instance, assignment by assignment *)

\* the pixel types a reader can report
PixelTypes == {"uint8", "uint16", "float32"}

\* the shapes of the first image of a file: grey, 3 or 4 colour components
Shapes == {<<10, 15>>, <<10, 15, 3>>, <<10, 15, 4>>}

\* the files a splitter is pointed at: a lif series of any pixel type and
\* shape, or a missing path
ProductSources ==
    [npages : 1..MaxPages, ver : {"a"}, PixelsType : PixelTypes,
     im_shape : Shapes] \cup {Missing}

\* the attributes that hold the products of a splitter
ProductNames ==
    {"im_stack", "frames_meta", "frames_json", "global_meta", "global_json"}

\* an attribute that is None, and an attribute that holds value v
IsNone == << >>
Some(v) == <<v>>

\* FileSplitter.__init__ lines 97-105: every product and the frame info
\* are None; assigned is the set of attributes assigned since, called the
\* accessor that was called last and what it raised
NoProducts ==
    [im_stack |-> IsNone, frames_meta |-> IsNone, frames_json |-> IsNone,
     global_meta |-> IsNone, global_json |-> IsNone,
     frame_shape |-> IsNone, im_colors |-> IsNone, bit_depth |-> IsNone,
     assigned |-> {}, called |-> [accessor |-> None, err |-> None, at |-> None]]

\* the attribute inst.name is assigned value v
Assign(inst, name, v) ==
    [inst EXCEPT ![name] = Some(v), !.assigned = @ \cup {name}]

\* get_frames_json asserting that the list is not empty
get_frames_json_NotEmpty(inst) ==
    IF Len(inst.frames_json) = 0 \/ Len(inst.frames_json[1]) = 0
    THEN "AssertionError" ELSE "none"

\* the accessors of FileSplitter: "AssertionError" when the attribute is
\* None, "none" when the attribute is returned
get_imstack(inst) ==
    IF Len(inst.im_stack) = 0 THEN "AssertionError" ELSE "none"

get_global_meta(inst) ==
    IF Len(inst.global_meta) = 0 THEN "AssertionError" ELSE "none"

get_global_json(inst) ==
    IF Len(inst.global_json) = 0 THEN "AssertionError" ELSE "none"

get_frames_meta_product(inst) ==
    IF Len(inst.frames_meta) = 0 THEN "AssertionError" ELSE "none"

get_frames_json(inst) ==
    IF Len(inst.frames_json) = 0 THEN "AssertionError" ELSE "none"

\* the accessor of the attribute name
Accessor(inst, name) ==
    CASE name = "im_stack" -> get_imstack(inst)
      [] name = "global_meta" -> get_global_meta(inst)
      [] name = "global_json" -> get_global_json(inst)
      [] name = "frames_meta" -> get_frames_meta_product(inst)
      [] name = "frames_json" -> get_frames_json(inst)

\* LifSplitter.set_frame_info(meta, im): im_colors is 1 or the third
\* dimension of the image, bit_depth the pixel type of the reader; the
\* attributes are set before the bit depth is asserted
lif_set_frame_info(inst, src) ==
    [inst |-> [inst EXCEPT
                 !.im_colors = Some(IF Len(src.im_shape) > 2
                                    THEN src.im_shape[3] ELSE 1),
                 !.frame_shape = Some(<<src.im_shape[1], src.im_shape[2]>>),
                 !.bit_depth = Some(src.PixelsType)],
     err |-> IF src.PixelsType \in {"uint8", "uint16"}
             THEN "none" ELSE "AssertionError"]

\* set_frame_info(page) of the ome-tiff splitters, on a grey page: the
\* bit depth must be uint8 or uint16
ome_set_frame_info(inst, src) ==
    IF src.PixelsType \in {"uint8", "uint16"}
    THEN [inst |-> [inst EXCEPT
                      !.im_colors = Some(1),
                      !.frame_shape = Some(<<src.im_shape[1], src.im_shape[2]>>),
                      !.bit_depth = Some(src.PixelsType)],
          err |-> "none"]
    ELSE [inst |-> inst, err |-> "ValueError"]

\* FileSplitter.set_global_meta with the frame info: an assertion fails
\* when the frame shape is None or a value of the dictionary is None
set_global_meta_info(inst, s3_dir, nbr_frames) ==
    IF Len(inst.frame_shape) = 0 \/ Len(inst.im_colors) = 0
       \/ Len(inst.bit_depth) = 0 \/ Len(inst.frames_meta) = 0
    THEN [inst |-> inst, err |-> "AssertionError"]
    ELSE [inst |-> Assign(inst, "global_meta",
                     set_global_meta(s3_dir, inst.frames_meta[1], nbr_frames)
                     @@ [im_height |-> inst.frame_shape[1][1],
                         im_width |-> inst.frame_shape[1][2],
                         im_colors |-> inst.im_colors[1],
                         bit_depth |-> inst.bit_depth[1]]),
          err |-> "none"]

\* the rows insert_frames adds, the FramesGlobal row with the frame info
\* of the global metadata
insert_frames_info_adds(cat, dataset_serial, frames_meta, global_meta) ==
    LET adds == insert_frames_adds(cat, dataset_serial, frames_meta,
                                   global_meta)
    IN [i \in DOMAIN adds |->
          IF adds[i].table = "frames_global"
          THEN [adds[i] EXCEPT
                  !.row = @ @@ [im_height |-> global_meta.im_height,
                                im_width |-> global_meta.im_width,
                                im_colors |-> global_meta.im_colors,
                                bit_depth |-> global_meta.bit_depth]]
          ELSE adds[i]]

\* a splitter of a frames format was constructed for a row
InitProducts ==
    /\ storage = << >>
    /\ catalog = EmptyCatalog
    /\ pc = "prod_new"
    /\ run \in [upload_type : {"frames"}, frames_format : FramesFormats,
                overwrite : {FALSE}]
    /\ row \in [dataset_id : {"TEST-2005-06-09-20-00-00-1000"},
                file_name : ProductSources]
    /\ IF run.frames_format = "slide_explorer" /\ row.file_name # Missing
       THEN Len(row.file_name.im_shape) = 2 ELSE TRUE
    /\ file_nbr = 1
    /\ frames_inst = NoProducts
    /\ row_state = <<"Uploading">>
    /\ reason = <<"none">>
    /\ raised = "none"
    /\ nrows_read = 1
    /\ hist = NoHist
    /\ dl = NoDownload

\* get_frames_and_metadata raises exc
ProductsRaise(exc) ==
    /\ pc' = "prod_failed"
    /\ raised' = exc

\* get_frames_and_metadata starts: the path must be a file (lif, line 43)
\* or hold ome-tiff files (slide explorer, lines 82-91)
ProductsOpen ==
    /\ pc = "prod_new"
    /\ IF ~isfile(Row.file_name)
       THEN ProductsRaise("AssertionError")
       ELSE pc' = "prod_frame_info" /\ UNCHANGED raised
    /\ UNCHANGED <<storage, catalog, run, row, file_nbr, frames_inst,
                   row_state, reason, nrows_read, hist, dl>>

\* set_frame_info on the first image (lif, line 51) or page (slide
\* explorer, line 105)
SetFrameInfo ==
    /\ pc = "prod_frame_info"
    /\ LET r == IF run.frames_format = "lif"
                THEN lif_set_frame_info(frames_inst, Row.file_name)
                ELSE ome_set_frame_info(frames_inst, Row.file_name)
       IN /\ frames_inst' = r.inst
          /\ IF r.err # "none"
             THEN ProductsRaise(r.err)
             ELSE /\ pc' = IF run.frames_format = "lif"
                           THEN "prod_im_stack" ELSE "prod_global_json"
                  /\ UNCHANGED raised
    /\ UNCHANGED <<storage, catalog, run, row, file_nbr, row_state, reason,
                   nrows_read, hist, dl>>

\* lif, lines 54-58: the empty image stack
AssignImStack ==
    /\ pc = "prod_im_stack"
    /\ frames_inst' = Assign(frames_inst, "im_stack", << >>)
    /\ pc' = "prod_global_json"
    /\ UNCHANGED <<storage, catalog, run, row, file_nbr, row_state, reason,
                   raised, nrows_read, hist, dl>>

\* lif line 61, slide explorer lines 107-110
AssignGlobalJson ==
    /\ pc = "prod_global_json"
    /\ frames_inst' = Assign(frames_inst, "global_json",
                             [file_origin |-> Row.file_name])
    /\ pc' = "prod_frames_meta"
    /\ UNCHANGED <<storage, catalog, run, row, file_nbr, row_state, reason,
                   raised, nrows_read, hist, dl>>

\* lif line 64, slide explorer line 119: the empty table
AssignFramesMeta ==
    /\ pc = "prod_frames_meta"
    /\ frames_inst' = Assign(frames_inst, "frames_meta", << >>)
    /\ pc' = "prod_frames_json"
    /\ UNCHANGED <<storage, catalog, run, row, file_nbr, row_state, reason,
                   raised, nrows_read, hist, dl>>

\* lif line 65, slide explorer line 120: the empty list
AssignFramesJson ==
    /\ pc = "prod_frames_json"
    /\ frames_inst' = Assign(frames_inst, "frames_json", << >>)
    /\ pc' = "prod_loop"
    /\ UNCHANGED <<storage, catalog, run, row, file_nbr, row_state, reason,
                   raised, nrows_read, hist, dl>>

\* the loop over the images of a lif (lines 68-108: stack, frames_json and
\* frames_meta are filled) or over the position files of a slide (lines
\* 124-141: frames_meta is appended to and the planes are uploaded;
\* frames_json stays empty)
FillFrames ==
    /\ pc = "prod_loop"
    /\ IF run.frames_format = "lif"
       THEN /\ frames_inst' =
                 [frames_inst EXCEPT
                    !.im_stack = Some(split_file_stack(Row.file_name)),
                    !.frames_json = Some([i \in 1..Row.file_name.npages |->
                                            [series |-> i]]),
                    !.frames_meta = Some(lif_frames_meta(Row.file_name.npages))]
            /\ UNCHANGED storage
       ELSE LET r == slide_explorer_loop(storage, storage_dir,
                        <<Row.file_name>>,
                        {<<1, k>> : k \in 1..Row.file_name.npages}, << >>, 1)
            IN /\ frames_inst' =
                    [frames_inst EXCEPT !.frames_meta = Some(r.frames_meta)]
               /\ storage' = r.st
    /\ pc' = "prod_global_meta"
    /\ UNCHANGED <<catalog, run, row, file_nbr, row_state, reason, raised,
                   nrows_read, hist, dl>>

\* lif line 111, slide explorer line 143: set_global_meta, after which
\* get_frames_and_metadata returns
SetGlobalMeta ==
    /\ pc = "prod_global_meta"
    /\ LET r == set_global_meta_info(frames_inst, storage_dir,
                                     Len(frames_inst.frames_meta[1]))
       IN /\ frames_inst' = r.inst
          /\ IF r.err # "none"
             THEN ProductsRaise(r.err)
             ELSE pc' = "prod_done" /\ UNCHANGED raised
    /\ UNCHANGED <<storage, catalog, run, row, file_nbr, row_state, reason,
                   nrows_read, hist, dl>>

\* data_uploader.py lines 207-215: the four products are read through
\* their accessors and inserted in one session
InsertProducts ==
    /\ pc = "prod_done"
    /\ IF \E a \in ProductNames \ {"im_stack"} :
             Accessor(frames_inst, a) # "none"
       THEN /\ ProductsRaise("AssertionError")
            /\ UNCHANGED catalog
       ELSE /\ catalog' =
                 session_scope(catalog,
                     insert_frames_info_adds(catalog, Row.dataset_id,
                                             frames_inst.frames_meta[1],
                                             frames_inst.global_meta[1]), 0)
            /\ pc' = "prod_inserted"
            /\ UNCHANGED raised
    /\ UNCHANGED <<storage, run, row, file_nbr, frames_inst, row_state,
                   reason, nrows_read, hist, dl>>

\* an accessor of the instance is called, in any state of the instance
CallAccessor(a) ==
    /\ pc \in {"prod_new", "prod_frame_info", "prod_im_stack",
               "prod_global_json", "prod_frames_meta", "prod_frames_json",
               "prod_loop", "prod_global_meta", "prod_done", "prod_failed"}
    /\ frames_inst' =
         [frames_inst EXCEPT
            !.called = [accessor |-> a, err |-> Accessor(frames_inst, a),
                        at |-> pc]]
    /\ pc' = "prod_called"
    /\ UNCHANGED <<storage, catalog, run, row, file_nbr, row_state, reason,
                   raised, nrows_read, hist, dl>>

NextProducts ==
    \/ ProductsOpen
    \/ SetFrameInfo
    \/ AssignImStack
    \/ AssignGlobalJson
    \/ AssignFramesMeta
    \/ AssignFramesJson
    \/ FillFrames
    \/ SetGlobalMeta
    \/ InsertProducts
    \/ \E a \in ProductNames : CallAccessor(a)

SpecProducts == InitProducts /\ [][NextProducts]_vars

\* batches about one dataset from sources with the same pixel contents,
\* whose ingestion can be interrupted while the planes are uploaded
NextInterrupt ==
    \/ Step({"TEST-2005-06-09-20-00-00-1000"},
            {src \in Sources : src.ver # "b"})
    \/ \E src \in {s \in Sources : s.ver # "b"},
          ok \in SUBSET ({1} \X (1..MaxPages)) : Interrupt(src, ok)

SpecInterrupt == Init /\ [][NextInterrupt]_vars

\* ---------------------------------------------------------------------
\* Properties
\* ---------------------------------------------------------------------

\* the current row has been processed to its end
RowDone == file_nbr >= 1 /\ pc \in {"next_row", "idle"}

\* the object a Frames row points at, through its FramesGlobal row
FrameKey(g, f) == <<g.storage_dir, f.file_name>>

\* C1: for every Frames row of the catalog there is an object stored at
\* storage_dir/file_name whose SHA-256 equals the row's sha256, whatever
\* splitter, overwrite flag, put failures or existing keys the ingestions
\* met.
C1_FramesRowsHaveObjects ==
    \A f \in catalog.frames :
        \E g \in catalog.frames_global :
            /\ g.data_set_id = f.frames_global_id
            /\ FrameKey(g, f) \in DOMAIN storage
            /\ gen_sha256(deserialize_im(storage[FrameKey(g, f)])) = f.sha256

\* C2: in the frames path insert_frames is called for a row only when
\* every plane of the row's dataset is held by storage; an upload step that
\* failed or is incomplete is never followed by the insert.
C2_InsertAfterAllPlanesStored ==
    (run.upload_type = "frames" /\ hist.insert_called) =>
        \A o \in hist.produced : o[1] \in DOMAIN storage

\* the current row names a serial the catalog held when the row was read,
\* and its batch runs with overwrite=false
SecondIngestionNoOverwrite ==
    /\ file_nbr >= 1
    /\ ~run.overwrite
    /\ ~db_assert_unique_id(hist.cat0, Row.dataset_id)

\* C3: a second ingestion with overwrite=false of a serial that is in the
\* catalog fails with duplicate-id, and the catalog during and after the
\* failed row is the catalog before it.
C3_DuplicateIdLeavesCatalog ==
    SecondIngestionNoOverwrite =>
        /\ catalog = hist.cat0
        /\ pc \in {"validate", "next_row", "idle"}
        /\ RowDone => /\ row_state[file_nbr] = "Failed"
                      /\ reason[file_nbr] = "duplicate-id"
                      /\ raised = "AssertionError"

\* a second ingestion with overwrite=false has ended with duplicate-id and
\* the dataset's rows are still in the catalog
C3_Witness ==
    /\ SecondIngestionNoOverwrite
    /\ RowDone
    /\ reason[file_nbr] = "duplicate-id"
    /\ catalog.data_set # {}
    /\ catalog = hist.cat0

\* the current row reached its catalog insert in a batch run with
\* overwrite=true, for a serial the catalog already held
SecondInsertOverwrite ==
    /\ RowDone
    /\ run.overwrite
    /\ hist.insert_called
    /\ ~db_assert_unique_id(hist.cat0, Row.dataset_id)

\* C4: whatever ingestions ran, with whatever overwrite flags, no two
\* DataSet rows have the same dataset_serial; ingesting a serial a second
\* time with overwrite=true raises nothing and leaves the one DataSet row
\* of the first ingestion.
C4_OneDataSetPerSerial ==
    /\ \A d1, d2 \in catalog.data_set :
          d1.dataset_serial = d2.dataset_serial => d1 = d2
    /\ SecondInsertOverwrite =>
          /\ raised = "none"
          /\ Cardinality({d \in catalog.data_set :
                            d.dataset_serial = Row.dataset_id}) = 1

\* a serial ingested with overwrite=true and cataloged has been ingested
\* again with overwrite=true, and the second call returned
C4_Witness ==
    /\ SecondInsertOverwrite
    /\ hist.prev.overwrite
    /\ hist.prev.dataset_id = Row.dataset_id
    /\ hist.prev.state = "Cataloged"
    /\ pc = "idle"
    /\ raised = "none"

\* the catalog insert of the current row was called and did not commit
InsertFailed ==
    /\ hist.insert_called
    /\ raised # "none" \/ row_state[file_nbr] = "Failed"

\* C5: when insert_frames or insert_file fails inside its session scope the
\* committed catalog is the catalog before the scope; no DataSet row is
\* committed without its FramesGlobal or FileGlobal row, and no
\* FramesGlobal row with only part of its Frames rows.
C5_InsertFailureRollsBack ==
    /\ InsertFailed => catalog = hist.cat0
    /\ \A d \in catalog.data_set :
          IF d.frames
          THEN \E g \in catalog.frames_global : g.data_set_id = d.id
          ELSE \E g \in catalog.file_global : g.data_set_id = d.id
    /\ \A g \in catalog.frames_global :
          Cardinality({f \in catalog.frames :
                         f.frames_global_id = g.data_set_id}) = g.nbr_frames

\* a database error has ended the insert of a row after some of its rows
\* were added to the session, and the catalog is as it was
C5_Witness ==
    /\ InsertFailed
    /\ raised = "DBError"
    /\ reason[file_nbr] = "catalog-error"
    /\ catalog = hist.cat0

RowStateOf(rs, i) == IF i \in DOMAIN rs THEN rs[i] ELSE "Pending"

\* the moves of the row state machine
Moves(a, b) ==
    \/ a = b
    \/ <<a, b>> \in {<<"Pending", "Validating">>, <<"Validating", "Uploading">>,
                     <<"Uploading", "Cataloged">>}
    \/ a \in {"Pending", "Validating", "Uploading"} /\ b = "Failed"

\* a step inside one invocation (the next invocation reads another batch)
SameBatch == ~(pc = "idle" /\ pc' = "next_row")

SecondOverwriteSameSource ==
    /\ RowDone
    /\ raised = "none"
    /\ run.overwrite
    /\ run.upload_type = "frames"
    /\ hist.prev.overwrite
    /\ hist.prev.state = "Cataloged"
    /\ hist.prev.dataset_id = Row.dataset_id
    /\ hist.prev.file_name = Row.file_name
    /\ hist.prev.upload_type = run.upload_type
    /\ hist.prev.frames_format = run.frames_format

\* C8: the second of two successive overwrite=true ingestions of a serial
\* from the same source changes nothing: the FramesGlobal row, the Frames
\* rows and the bytes stored under every plane key are those the first
\* ingestion left.
C8_SecondRunChangesNothing ==
    SecondOverwriteSameSource =>
        /\ catalog = hist.cat0
        /\ \A o \in hist.produced :
              /\ o[1] \in DOMAIN storage <=> o[1] \in DOMAIN hist.sto0
              /\ o[1] \in DOMAIN storage => storage[o[1]] = hist.sto0[o[1]]

\* C9: with overwrite=true a put to a key that already holds an object
\* replaces it: once the row has been processed, every plane key (frames)
\* and the file key (file) that held an object before the row holds the
\* bytes this row produced, not those of an earlier run.
C9_OverwriteReplaces ==
    (RowDone /\ run.overwrite /\ raised = "none") =>
        \A o \in hist.produced :
            o[1] \in DOMAIN hist.sto0 =>
                /\ o[1] \in DOMAIN storage
                /\ storage[o[1]] = o[2]

\* the current row is processed with overwrite=false and the storage
\* directory of its dataset held an object when the row was read
StorageDirTaken ==
    /\ file_nbr >= 1
    /\ validate_id(Row.dataset_id)
    /\ ~run.overwrite
    /\ ~assert_unique_id(hist.sto0, storage_dir)

\* the finished row got as far as the uniqueness check of its storage
\* directory: its serial was not in the catalog and, for a file upload, its
\* source is a file
ReachedStorageCheck ==
    /\ db_assert_unique_id(hist.cat0, Row.dataset_id)
    /\ run.upload_type = "file" => isfile(Row.file_name)

\* C10: with overwrite=false a row whose storage directory already holds
\* an object never gets past the uniqueness check (splitter construction
\* for frames, assert_unique_id for files): the row that reaches the check
\* fails there with storage-exists, nothing is put or changed in storage
\* and no catalog row is inserted for the row.
C10_StorageExistsBeforeAnyPut ==
    StorageDirTaken =>
        /\ storage = hist.sto0
        /\ catalog = hist.cat0
        /\ hist.acked = {}
        /\ ~hist.insert_called
        /\ pc \notin {"split", "insert", "upload_file", "insert_file"}
        /\ RowDone =>
              /\ row_state[file_nbr] = "Failed"
              /\ raised = "AssertionError"
              /\ ReachedStorageCheck => reason[file_nbr] = "storage-exists"

\* a frames row with overwrite=false has failed with storage-exists over a
\* directory that an earlier ingestion filled without reaching the catalog
C10_Witness ==
    /\ StorageDirTaken
    /\ RowDone
    /\ ReachedStorageCheck
    /\ run.upload_type = "frames"
    /\ reason[file_nbr] = "storage-exists"
    /\ storage # << >>
    /\ storage = hist.sto0

\* the current row has been run again with overwrite=true, from the same
\* source and with the same splitter, after its previous run was
\* interrupted before the catalog insert when some but not all of its
\* planes were in storage; this run returned
RerunAfterInterrupt ==
    /\ RowDone
    /\ raised = "none"
    /\ run.overwrite
    /\ run.upload_type = "frames"
    /\ hist.prev.reason = "interrupted"
    /\ hist.prev.dataset_id = Row.dataset_id
    /\ hist.prev.file_name = Row.file_name
    /\ hist.prev.upload_type = run.upload_type
    /\ hist.prev.frames_format = run.frames_format
    /\ \E o \in hist.produced : o[1] \in DOMAIN hist.sto0
    /\ \E o \in hist.produced : o[1] \notin DOMAIN hist.sto0

\* C11: when an ingestion was interrupted after some planes were written
\* and before the catalog insert, a later run of the same row with
\* overwrite=true ends Cataloged and afterwards every Frames row of the
\* dataset has its plane in storage with the matching sha256.
C11_RerunReclaimsPartialUpload ==
    RerunAfterInterrupt =>
        /\ row_state[file_nbr] = "Cataloged"
        /\ \A g \in catalog.frames_global, f \in catalog.frames :
              (g.storage_dir = storage_dir
               /\ f.frames_global_id = g.data_set_id) =>
                  /\ FrameKey(g, f) \in DOMAIN storage
                  /\ gen_sha256(deserialize_im(storage[FrameKey(g, f)]))
                        = f.sha256

\* C12: whatever frames and file ingestions ran, each DataSet row has
\* either exactly one FramesGlobal row, no FileGlobal row and frames=true,
\* or exactly one FileGlobal row, no FramesGlobal row and frames=false.
C12_ExactlyOneGlobalPerDataSet ==
    \A d \in catalog.data_set :
        LET fg == {g \in catalog.frames_global : g.data_set_id = d.id}
            fl == {g \in catalog.file_global : g.data_set_id = d.id}
        IN \/ d.frames /\ Cardinality(fg) = 1 /\ fl = {}
           \/ ~d.frames /\ Cardinality(fl) = 1 /\ fg = {}

\* a serial cataloged as a frames dataset has been ingested again with
\* overwrite=true as a file, up to the catalog insert
C12_Witness ==
    /\ RowDone
    /\ run.overwrite
    /\ run.upload_type = "file"
    /\ hist.insert_called
    /\ \E d \in catalog.data_set :
          d.dataset_serial = Row.dataset_id /\ d.frames

\* the Frames rows of a FramesGlobal
FramesOf(g) == {f \in catalog.frames : f.frames_global_id = g.data_set_id}

\* the index columns of a Frames row with the FramesGlobal column counting
\* each
Dims ==
    {<<"channel_idx", "nbr_channels">>, <<"slice_idx", "nbr_slices">>,
     <<"time_idx", "nbr_timepoints">>, <<"pos_idx", "nbr_positions">>}

\* C13 as stated: every Frames row has each of its indices at least 0 and
\* below the corresponding nbr_* of its FramesGlobal.
C13_IndicesBelowCounts ==
    \A g \in catalog.frames_global : \A f \in FramesOf(g) : \A d \in Dims :
        0 <= f[d[1]] /\ f[d[1]] < g[d[2]]

\* C13 (amended): every index of a Frames row is at least 0, and it is
\* below the corresponding nbr_* of its FramesGlobal whenever the rows of
\* that FramesGlobal use every smaller value of the index too.  The index
\* is what the metadata of the page says, nbr_* counts the distinct values,
\* so a row ingested without the lower positions has pos_idx >= nbr_positions.
C13_IndicesBelowCountsWhenContiguous ==
    \A g \in catalog.frames_global : \A f \in FramesOf(g) : \A d \in Dims :
        /\ 0 <= f[d[1]]
        /\ (\A v \in 0..f[d[1]] : \E r \in FramesOf(g) : r[d[1]] = v)
              => f[d[1]] < g[d[2]]

\* a frames ingestion of several planes has been cataloged whose position
\* is not among the first nbr_positions ones
C13_Witness ==
    /\ RowDone
    /\ raised = "none"
    /\ \E g \in catalog.frames_global :
          /\ g.nbr_frames > 1
          /\ \E f \in FramesOf(g) : f.pos_idx >= g.nbr_positions

\* C14: nbr_frames of a FramesGlobal is the number of its Frames rows, and
\* nbr_slices, nbr_channels, nbr_timepoints and nbr_positions are the
\* numbers of distinct values of the corresponding index over those rows.
C14_CountsMatchRows ==
    \A g \in catalog.frames_global :
        /\ g.nbr_frames = Cardinality(FramesOf(g))
        /\ \A d \in Dims :
              g[d[2]] = Cardinality({f[d[1]] : f \in FramesOf(g)})

\* a frames ingestion has been cataloged of more planes than slices and
\* more planes than positions
C14_Witness ==
    /\ RowDone
    /\ raised = "none"
    /\ \E g \in catalog.frames_global :
          /\ FramesOf(g) # {}
          /\ g.nbr_slices > 1
          /\ g.nbr_positions > 1
          /\ g.nbr_frames > g.nbr_slices
          /\ g.nbr_frames > g.nbr_positions

\* C15: within one FramesGlobal no two Frames rows have the same
\* (channel_idx, slice_idx, time_idx, pos_idx).
C15_IndexTupleUnique ==
    \A g \in catalog.frames_global : \A f1, f2 \in FramesOf(g) :
        (\A d \in Dims : f1[d[1]] = f2[d[1]]) => f1 = f2

\* the three decimal digits of n, for n below 1000
ThreeDigits(n) ==
    ToString((n \div 100) % 10) \o ToString((n \div 10) % 10)
        \o ToString(n % 10)

\* C16: the file_name of a Frames row with indices (c, z, t, p) is
\* "im_c" c "_z" z "_t" t "_p" p ".png", every index in decimal and
\* zero-padded to three digits.
C16_FileNameFromIndices ==
    \A f \in catalog.frames :
        /\ \A d \in Dims : f[d[1]] \in 0..999
        /\ f.file_name = "im_c" \o ThreeDigits(f.channel_idx)
                           \o "_z" \o ThreeDigits(f.slice_idx)
                           \o "_t" \o ThreeDigits(f.time_idx)
                           \o "_p" \o ThreeDigits(f.pos_idx) \o ".png"

\* a plane has been cataloged whose position takes two digits and whose
\* slice takes one
C16_Witness ==
    /\ RowDone
    /\ raised = "none"
    /\ \E f \in catalog.frames :
          /\ f.pos_idx >= 10
          /\ f.slice_idx \in 1..9
          /\ f.file_name = "im_c000_z001_t000_p040.png"

\* download_data has ended after its loop over the objects was entered
DownloadLoopEntered ==
    /\ pc = "dl_done"
    /\ dl.args.download
    /\ dl.i >= 1

\* download_data makes at most the allowed attempts at an item and ends
\* with an error iff an item it took up fails all of its attempts
DownloadFailsIffExhausted ==
    DownloadLoopEntered =>
        /\ \A k \in DOMAIN dl.attempts : ~Exhausted(dl.attempts[k] - 1)
        /\ dl.raised # "none" <=>
              \E k \in DOMAIN dl.fails : Exhausted(dl.fails[k])

\* when upload_frames has returned, every plane it was given is in storage
UploadReturnsWithAllPlanes ==
    (pc = "insert" /\ run.frames_format = "slide_explorer") =>
        \A o \in hist.produced : o[1] \in DOMAIN storage

\* C17: a transfer of several items attempts each item at most 3 times and
\* fails exactly when some item fails all of its attempts; a failed item is
\* reported, never dropped silently.
C17_FailsIffAnItemExhaustsRetries ==
    DownloadFailsIffExhausted /\ UploadReturnsWithAllPlanes

\* the Frames rows the catalog holds for the dataset of the download that
\* pass its filters
Wanted ==
    {f \in catalog.frames :
        /\ \E d \in catalog.data_set :
              d.dataset_serial = dl.args.id /\ d.id = f.frames_global_id
        /\ \A dim \in dl.args.filters.dims :
              f[dim] \in dl.args.filters.want[dim]
        /\ dl.args.filters.channels # None =>
              ToString(f.channel_idx) = dl.args.filters.channels}

\* the metadata files download_data writes
MetaFiles == {"global_metadata.json", "frames_meta.csv"}

\* C18: for any filters (also none) the planes retrieved and the rows of
\* frames_meta.csv are the Frames rows of the dataset that have, in every
\* filtered dimension, one of the values asked for.
C18_RetrievedEqualsProjection ==
    (pc = "dl_done" /\ dl.raised = "none" /\ dl.made
     /\ dl.args.metadata /\ dl.args.download) =>
        /\ {dl.dest["frames_meta.csv"][i] :
                i \in DOMAIN dl.dest["frames_meta.csv"]} = Wanted
        /\ DOMAIN dl.dest \ MetaFiles = {f.file_name : f \in Wanted}

\* C19: when <dest>/<serial> exists as download_data is called, the
\* retrieval ends with FileExistsError and the directory is as it was.
C19_DestinationExistsRaises ==
    (pc = "dl_done" /\ dl.dest_existed) =>
        /\ dl.raised = "FileExistsError"
        /\ dl.dest = OldDest
        /\ ~dl.made

\* C20: download_data called with an ill-formed serial ends with
\* AssertionError, queries no catalog and downloads nothing.
C20_InvalidIdRaisesBeforeCatalog ==
    (pc \in {"dl_query", "dl_files", "dl_done"}
     /\ ~validate_id(dl.args.id)) =>
        /\ pc = "dl_done"
        /\ dl.raised = "AssertionError"
        /\ ~dl.catalog_read
        /\ dl.attempts = << >>

\* download_data was called with neither metadata nor download asked for
NothingAsked == ~dl.args.metadata /\ ~dl.args.download

\* C21: download_data called with download=false and metadata=false ends
\* with the nothing-to-do error (the AssertionError of line 107), whatever
\* kind of dataset the serial names.
C21_NothingToDoFails ==
    (pc = "dl_done" /\ NothingAsked) => dl.raised = "AssertionError"

\* the string is the decimal form of an integer
IsDecimal(str) == \E n \in 0..999 : ToString(n) = str

\* C22: in the retrieval of a frames dataset a channels filter given as a
\* string that is not a decimal integer makes the retrieval fail (with
\* channel-name-not-numeric; the formula asks only for a failure), and one
\* that is a decimal integer selects the planes of that channel.
C22_ChannelsStringFilter ==
    (pc = "dl_done" /\ dl.made /\ dl.args.metadata /\ dl.args.download
     /\ dl.args.filters.channels # None
     /\ \E d \in catalog.data_set :
           d.dataset_serial = dl.args.id /\ d.frames) =>
        IF IsDecimal(dl.args.filters.channels)
        THEN dl.raised = "none" =>
                DOMAIN dl.dest \ MetaFiles = {f.file_name : f \in Wanted}
        ELSE dl.raised # "none"

\* the row that has ended was cataloged as a file dataset
FileRowCataloged ==
    /\ RowDone
    /\ run.upload_type = "file"
    /\ row_state[file_nbr] = "Cataloged"

\* the file dataset of the ended row has a FileGlobal with the sha256 of
\* the source bytes and no FramesGlobal, and the object of the file holds
\* the source bytes
FileIngestedVerbatim ==
    \E d \in catalog.data_set :
        /\ d.dataset_serial = Row.dataset_id
        /\ \A g \in catalog.frames_global : g.data_set_id # d.id
        /\ \E g \in catalog.file_global :
              /\ g.data_set_id = d.id
              /\ g.sha256 = gen_sha256(FileBytes(Row.file_name))
              /\ <<g.storage_dir, g.file_name>> \in DOMAIN storage
              /\ storage[<<g.storage_dir, g.file_name>>]
                    = FileBytes(Row.file_name)

\* a retrieval of a file dataset with metadata=false and download=true
\* that ended without error wrote the file with the cataloged sha256
FileRetrievedVerbatim ==
    (pc = "dl_done" /\ dl.raised = "none" /\ dl.made
     /\ ~dl.args.metadata /\ dl.args.download) =>
        \A d \in catalog.data_set, g \in catalog.file_global :
            (d.dataset_serial = dl.args.id /\ g.data_set_id = d.id) =>
                /\ g.file_name \in DOMAIN dl.dest
                /\ gen_sha256(dl.dest[g.file_name]) = g.sha256

\* C23: after a successful file ingestion the dataset has a FileGlobal and
\* no FramesGlobal, FileGlobal.sha256 is the SHA-256 of the bytes of the
\* source file, the object raw_files/<serial>/<file_name> holds exactly
\* those bytes, and a retrieval with metadata=false, download=true writes
\* a file with the same bytes.
C23_FileRoundTrip ==
    /\ FileRowCataloged => FileIngestedVerbatim
    /\ FileRetrievedVerbatim

\* upload_stack has returned or raised
Uploaded == pc = "uploaded"

\* the key of the i-th file name of the splitter
StackKey(i) == <<storage_dir, frames_inst.file_names[i]>>

\* after an upload that returned, an object stored under a file name of
\* the splitter holds the plane paired with that name
PairingKept ==
    (Uploaded /\ raised = "none") =>
        \A i \in DOMAIN frames_inst.file_names :
            StackKey(i) \in DOMAIN storage =>
                storage[StackKey(i)]
                    = serialize_im(frames_inst.im_stack[i], FRAME_FILE_FORMAT)

\* the same for the objects this upload wrote
WrittenPairingKept ==
    (Uploaded /\ raised = "none") =>
        \A i \in DOMAIN frames_inst.file_names :
            StackKey(i) \in hist.acked =>
                storage[StackKey(i)]
                    = serialize_im(frames_inst.im_stack[i], FRAME_FILE_FORMAT)

\* an upload of file names and planes of different numbers raises and
\* uploads nothing
MismatchUploadsNothing ==
    (Uploaded /\ Len(frames_inst.file_names) # Len(frames_inst.im_stack)) =>
        raised = "AssertionError" /\ storage = hist.sto0

\* C24: the object stored under the file name of a tuple holds the pixels
\* of the plane whose frames_meta row carries that tuple: file_names[i] is
\* paired with plane i whatever the order in which the uploads complete,
\* and an upload of file names and planes of different numbers uploads
\* nothing.
C24_NameHoldsItsPlane ==
    PairingKept /\ MismatchUploadsNothing

\* a tif_id splitter is reading or has read the stack of its file
TifId == pc \in {"tif_id_pages", "tif_id_done"}

\* the description of the file of the tif_id splitter
Desc == Row.file_name.description

\* frames_meta row n and plane n of the stack describe and hold page n - 1
\* of the file, and the object under the row's file name holds that page
\* once the stack is uploaded
RowsFollowPages ==
    TifId =>
        \A n \in DOMAIN frames_inst.frames_meta :
            /\ frames_inst.frames_meta[n].sha256
                  = gen_sha256(Pixels(Row.file_name, n))
            /\ frames_inst.im_stack[n] = Pixels(Row.file_name, n)
            /\ pc = "tif_id_done" =>
                  storage[<<storage_dir, frames_inst.frames_meta[n].file_name>>]
                     = serialize_im(Pixels(Row.file_name, n), FRAME_FILE_FORMAT)

\* the number of timepoints is the number of images over channels x slices
TimepointsFromDescription ==
    pc = "tif_id_done" =>
        frames_inst.global_meta.nbr_timepoints
            = Desc.images \div (Desc.channels * Desc.slices)

Alphabetical(a, b) ==
    \E i, j \in DOMAIN ChannelNames :
        ChannelNames[i] = a /\ ChannelNames[j] = b /\ i < j

\* the 0-based rank of a channel name among the distinct channel names of
\* the rows of frames_meta, sorted
SortedRank(frames_meta, name) ==
    Cardinality({frames_meta[i].channel_name : i \in DOMAIN frames_meta}
                \cap {c \in {ChannelNames[i] : i \in DOMAIN ChannelNames} :
                         Alphabetical(c, name)})

\* after a tiff-folder ingestion every frame's channel index is the rank
\* of its name
ChannelIdxIsSortedRank ==
    pc = "tif_folder_done" =>
        \A i \in DOMAIN frames_inst.frames_meta :
            frames_inst.frames_meta[i].channel_idx
                = SortedRank(frames_inst.frames_meta,
                             frames_inst.frames_meta[i].channel_name)

\* a step of parsing leaves the accumulator as it is or appends one name
\* that was not in it
AccumulatorAppends ==
    (pc = "tif_folder_parse" /\ pc' = "tif_folder_parse") =>
        \/ frames_inst'.channel_names = frames_inst.channel_names
        \/ \E c \in {ChannelNames[i] : i \in DOMAIN ChannelNames} :
              /\ \A i \in DOMAIN frames_inst.channel_names :
                    frames_inst.channel_names[i] # c
              /\ frames_inst'.channel_names
                    = Append(frames_inst.channel_names, c)

FourAccessors == {"global_meta", "global_json", "frames_meta", "frames_json"}

\* an accessor was called on a splitter instance
Called == pc = "prod_called" /\ frames_inst.called.accessor \in FourAccessors

\* C27: on a splitter instance get_global_meta, get_global_json,
\* get_frames_meta and get_frames_json each fail with AssertionError in
\* every state in which their product has not been assigned, and all four
\* succeed after get_frames_and_metadata has returned successfully, for
\* every splitter variant.
C27_AccessorsFailBeforeAssignment ==
    /\ Called =>
         (frames_inst.called.err = "AssertionError"
            <=> frames_inst.called.accessor \notin frames_inst.assigned)
    /\ Called =>
         frames_inst.called.err \in {"AssertionError", "none"}
    /\ (Called /\ frames_inst.called.at = "prod_done") =>
         frames_inst.called.err = "none"
    /\ pc = "prod_inserted" => FourAccessors \subseteq frames_inst.assigned

\* get_frames_json returned the empty list of a slide explorer splitter
\* whose get_frames_and_metadata had returned
C27_Witness ==
    /\ Called
    /\ run.frames_format = "slide_explorer"
    /\ frames_inst.called.at = "prod_done"
    /\ frames_inst.called.accessor = "frames_json"
    /\ frames_inst.called.err = "none"
    /\ frames_inst.frames_json = Some(<< >>)

\* get_global_meta failed on a lif splitter whose global_json and
\* frames_meta were assigned already
C27_FailsBefore ==
    /\ Called
    /\ run.frames_format = "lif"
    /\ frames_inst.called.at = "prod_loop"
    /\ frames_inst.called.accessor = "global_meta"
    /\ frames_inst.called.err = "AssertionError"
    /\ {"global_json", "frames_meta"} \subseteq frames_inst.assigned

\* the step of get_frames_and_metadata the instance is at, or was at when
\* an accessor was called
At == IF pc = "prod_called" THEN frames_inst.called.at ELSE pc

\* set_frame_info has returned on the instance
FrameInfoSet ==
    At \in {"prod_im_stack", "prod_global_json", "prod_frames_meta",
            "prod_frames_json", "prod_loop", "prod_global_meta", "prod_done",
            "prod_inserted"}

\* after a successful set_frame_info the bit depth is supported, and no
\* FramesGlobal row has another one
BitDepthSupported ==
    /\ FrameInfoSet => frames_inst.bit_depth[1] \in {"uint8", "uint16"}
    /\ \A g \in catalog.frames_global : g.bit_depth \in {"uint8", "uint16"}

\* set_frame_info fails on a file of any other pixel type
OtherPixelTypeFails ==
    (At \notin {"prod_new", "prod_frame_info"} /\ isfile(Row.file_name)
     /\ Row.file_name.PixelsType \notin {"uint8", "uint16"}) =>
        At = "prod_failed" /\ raised # "none"

\* after a successful set_frame_info the number of colours is 1 or 3, and
\* no FramesGlobal row has another one
ColoursSupported ==
    /\ FrameInfoSet => frames_inst.im_colors[1] \in {1, 3}
    /\ \A g \in catalog.frames_global : g.im_colors \in {1, 3}

\* C28: after any successful set_frame_info and any successful frames
\* ingestion bit_depth is "uint8" or "uint16" and im_colors is 1 or 3;
\* set_frame_info fails for any other pixel type, and no FramesGlobal with
\* another bit_depth or im_colors is ever inserted.
C28_FrameInfoSupported ==
    BitDepthSupported /\ OtherPixelTypeFails /\ ColoursSupported

\* a FramesGlobal row with four colours was inserted
C28_FourColoursInserted ==
    \E g \in catalog.frames_global : g.im_colors = 4

\* download_data has ended with an error
RetrievalFailed == pc = "dl_done" /\ dl.raised # "none"

\* C29: a retrieval that fails (nothing-to-do, dataset-not-found,
\* channel-name-not-numeric or invalid-id) leaves the destination as it
\* was: no newly made <dest>/<serial> directory is left behind, so that
\* the retrieval can be repeated to the same dest.
C29_FailedRetrievalLeavesNoDirectory ==
    RetrievalFailed =>
        /\ ~dl.made
        /\ dl.dest = IF dl.dest_existed THEN OldDest ELSE << >>

\* a retrieval that asked for nothing failed after it made the directory
C29_DirectoryLeftBehind ==
    /\ RetrievalFailed
    /\ NothingAsked
    /\ dl.raised = "AssertionError"
    /\ dl.made
    /\ ~dl.dest_existed

\* the directory the spec gives the objects of the current row
DirOfRow ==
    (IF run.upload_type = "frames" THEN "raw_frames" ELSE "raw_files")
        \o "/" \o Row.dataset_id

\* the objects of st outside the directory of the current row
ObjectsElsewhere(st) ==
    {<<k, st[k]>> : k \in {k \in DOMAIN st : k[1] # DirOfRow}}

\* the rows of cat that belong to other datasets than the current row's
RowsOfOthers(cat) ==
    LET mine == {d.id : d \in {d \in cat.data_set :
                                  d.dataset_serial = Row.dataset_id}}
    IN [data_set |-> {d \in cat.data_set : d.id \notin mine},
        frames_global |-> {g \in cat.frames_global : g.data_set_id \notin mine},
        frames |-> {f \in cat.frames : f.frames_global_id \notin mine},
        file_global |-> {g \in cat.file_global : g.data_set_id \notin mine}]

\* C30: the ingestion of a row with serial S writes only storage keys
\* under raw_frames/S (frames) or raw_files/S (file) and only catalog rows
\* of S: the objects and the catalog rows of every other dataset are as
\* they were before the row, at every step of the row, whether it succeeds
\* or fails and for either overwrite setting.
C30_OnlyOwnDatasetWritten ==
    file_nbr >= 1 =>
        /\ ObjectsElsewhere(storage) = ObjectsElsewhere(hist.sto0)
        /\ RowsOfOthers(catalog) = RowsOfOthers(hist.cat0)

\* a row was cataloged with overwrite=true, writing an object and catalog
\* rows, while storage and catalog held another dataset
C30_Witness ==
    /\ RowDone
    /\ run.overwrite
    /\ row_state[file_nbr] = "Cataloged"
    /\ DOMAIN storage # DOMAIN hist.sto0
    /\ catalog # hist.cat0
    /\ ObjectsElsewhere(storage) # {}
    /\ RowsOfOthers(catalog).data_set # {}

\* a row failed after it put an object, while storage held another dataset
C30_FailedRow ==
    /\ RowDone
    /\ row_state[file_nbr] = "Failed"
    /\ hist.acked # {}
    /\ ObjectsElsewhere(storage) # {}

====
